---------------------------- MODULE Spec2Model ----------------------------
(***************************************************************************)
(* A model of sox/transform.py: the Transformer builder of pysox.          *)
(*                                                                         *)
(* The Transformer's five attributes are the variables globals,            *)
(* input_format, output_format, effects and effects_log.  Every method of  *)
(* the class is an operator of the same name that takes the object (a      *)
(* record of the five attributes) and the call's arguments and gives the   *)
(* outcome of the call: the object as the call leaves it, the exception    *)
(* class raised (or "none"), the value returned, the diagnostics logged    *)
(* and what was handed to the collaborators.  There is one action per      *)
(* method; it draws the arguments from a small set of argument tuples.     *)
(*                                                                         *)
(* Python values are records [t, n, s, l]: t is the type, n the number     *)
(* (an int as itself, a bool as 0/1, a float in thousandths), s the text   *)
(* of a str and l the elements of a list or tuple.                         *)
(***************************************************************************)
EXTENDS Integers, Sequences, FiniteSets, TLC

VARIABLES
    globals,          \* self.globals
    input_format,     \* self.input_format
    output_format,    \* self.output_format
    effects,          \* self.effects
    effects_log,      \* self.effects_log
    last,             \* the latest call: method, arguments, object before, outcome
    built,            \* the latest build that reached the engine before `last`
    n_returned,       \* effect-method invocations that returned without raising
    n_fade_noop,      \* of those, the fade calls with neither length > 0
    ncalls,           \* calls made so far
    tf_default,       \* the list object that is the default of compand's tf_points
    tf_caller,        \* a list object a caller holds and passes as tf_points
    threads           \* the callers that share the object: where each is in its call

vars == <<globals, input_format, output_format, effects, effects_log,
          last, built, n_returned, n_fade_noop, ncalls,
          tf_default, tf_caller, threads>>

\* The number of method calls one behaviour of Spec makes.
MaxCalls == 2

\* The number of method calls one behaviour of SpecChain makes.
MaxChain == 4

-----------------------------------------------------------------------------
(* Python values *)

V(t, n, s, l) == [t |-> t, n |-> n, s |-> s, l |-> l]
None == V("none", 0, "", <<>>)
I(n) == V("int", n, "", <<>>)
F(m) == V("float", m, "", <<>>)
B(b) == V("bool", IF b THEN 1 ELSE 0, "", <<>>)
S(s) == V("str", 0, s, <<>>)
L(l) == V("list", 0, "", l)
T(l) == V("tuple", 0, "", l)

\* isinstance(v, bool), isinstance(v, int) (a bool is an int), isinstance(v, str), ...
isinstance_bool(v) == v.t = "bool"
isinstance_int(v) == v.t \in {"int", "bool"}
isinstance_str(v) == v.t = "str"
isinstance_list(v) == v.t = "list"
isinstance_tuple(v) == v.t = "tuple"
is_None(v) == v.t = "none"

\* core.is_number: whether the value is numeric.  The arguments drawn below hold
\* no bool and no numeric text where a number is expected.
is_number(v) == v.t \in {"int", "float"}

\* The value of a number in thousandths, the scale on which numbers compare.
Milli(v) == IF v.t = "float" THEN v.n ELSE 1000 * v.n

\* Python's ==, as `in` applies it to the elements of a list literal.
PyEq(a, b) ==
    IF a.t \in {"int", "float", "bool"} /\ b.t \in {"int", "float", "bool"}
    THEN Milli(a) = Milli(b)
    ELSE a = b

\* v in lst
In(v, lst) == \E i \in 1..Len(lst) : PyEq(v, lst[i])

Pad2(x) == IF x < 10 THEN "0" \o ToString(x) ELSE ToString(x)
Pad3(x) == IF x < 10 THEN "00" \o ToString(x) ELSE IF x < 100 THEN "0" \o ToString(x) ELSE ToString(x)

\* repr of a non-negative float given in thousandths: the shortest decimal, with
\* at least one digit after the point.
FloatStr(m) ==
    LET ip == m \div 1000
        fp == m % 1000
    IN ToString(ip) \o "." \o
         (IF fp % 100 = 0 THEN ToString(fp \div 100)
          ELSE IF fp % 10 = 0 THEN Pad2(fp \div 10)
          ELSE Pad3(fp))

\* '{}'.format(v) and str(v).  Lists and tuples are never formatted by the code.
Fmt(v) ==
    CASE v.t = "none" -> "None"
      [] v.t = "bool" -> IF v.n = 1 THEN "True" ELSE "False"
      [] v.t = "int" -> ToString(v.n)
      [] v.t = "float" -> IF v.n < 0 THEN "-" \o FloatStr(-v.n) ELSE FloatStr(v.n)
      [] v.t = "str" -> v.s

\* a - b and a * b on numbers: an int when both are ints, a float otherwise.
\* The floats drawn for arithmetic are dyadic, so the IEEE result is the exact one.
Sub(a, b) == IF a.t = "float" \/ b.t = "float" THEN F(Milli(a) - Milli(b)) ELSE I(a.n - b.n)
Mul(a, b) ==
    IF a.t = "float" \/ b.t = "float" THEN F((Milli(a) * Milli(b)) \div 1000) ELSE I(a.n * b.n)

\* sep.join(tokens)
RECURSIVE Join(_, _)
Join(tokens, sep) ==
    IF Len(tokens) = 0 THEN ""
    ELSE IF Len(tokens) = 1 THEN tokens[1]
    ELSE tokens[1] \o sep \o Join(Tail(tokens), sep)

VERBOSITY_VALS == <<I(0), I(1), I(2), I(3), I(4)>>
ENCODING_VALS ==
    <<S("signed-integer"), S("unsigned-integer"), S("floating-point"), S("a-law"),
      S("u-law"), S("oki-adpcm"), S("ima-adpcm"), S("ms-adpcm"), S("gsm-full-rate")>>
\* core.VALID_FORMATS: the whitelist of file types the engine supports.
VALID_FORMATS == <<S("wav"), S("mp3"), S("flac"), S("raw")>>

-----------------------------------------------------------------------------
(* Outcomes of a call *)

\* The object itself.
Self ==
    [globals |-> globals, input_format |-> input_format,
     output_format |-> output_format, effects |-> effects,
     effects_log |-> effects_log]

Outcome(self, raised, ret, logs, returned, trace, handed, msg) ==
    [self |-> self, raised |-> raised, ret |-> ret, logs |-> logs,
     returned |-> returned, trace |-> trace, handed |-> handed, msg |-> msg]

\* raise <cls>, after the warnings `logs`
Raise(self, cls, logs) == Outcome(self, cls, "", logs, <<>>, <<>>, <<>>, "")

\* Return with the slip of returning a copy of the object.
Return_a_copy(self, name, logs) == Outcome(self, "none", "copy", logs, <<name>>, <<>>, <<>>, "")

\* return self from method `name`, after the warnings `logs`
Return(self, name, logs) == Outcome(self, "none", "self", logs, <<name>>, <<>>, <<>>, "")

\* Extend with the slip of putting the new tokens in front of the old ones.
Extend_in_front(self, effect_args, name, logs) ==
    Return([self EXCEPT !.effects = effect_args \o @,
                        !.effects_log = Append(@, name)], name, logs)

\* self.effects.extend(effect_args); self.effects_log.append(name); return self
Extend(self, effect_args, name, logs) ==
    Return([self EXCEPT !.effects = @ \o effect_args,
                        !.effects_log = Append(@, name)], name, logs)

-----------------------------------------------------------------------------
(* Setters *)

set_globals(self, dither, guard, multithread, replay_gain, verbosity) ==
    IF ~isinstance_bool(dither) THEN Raise(self, "ValueError", <<>>)
    ELSE IF ~isinstance_bool(guard) THEN Raise(self, "ValueError", <<>>)
    ELSE IF ~isinstance_bool(multithread) THEN Raise(self, "ValueError", <<>>)
    ELSE IF ~isinstance_bool(replay_gain) THEN Raise(self, "ValueError", <<>>)
    ELSE IF ~In(verbosity, VERBOSITY_VALS) THEN Raise(self, "ValueError", <<>>)
    ELSE
      LET global_args ==
            (IF dither.n = 0 THEN <<"-D">> ELSE <<>>)
            \o (IF guard.n = 1 THEN <<"-G">> ELSE <<>>)
            \o (IF multithread.n = 1 THEN <<"--multi-threaded">> ELSE <<>>)
            \o (IF replay_gain.n = 1 THEN <<"--replay-gain", "track">> ELSE <<>>)
            \o <<"-V" \o Fmt(verbosity)>>
      IN Return([self EXCEPT !.globals = global_args], "set_globals", <<>>)

\* The five fields the two format setters share: their checks, then their tokens.
FormatFieldsValid(file_type, rate, bits, channels, encoding) ==
    /\ In(file_type, VALID_FORMATS \o <<None>>)
    /\ ~(~is_number(rate) /\ ~is_None(rate))
    /\ ~(~is_None(rate) /\ Milli(rate) <= 0)
    /\ ~(~isinstance_int(bits) /\ ~is_None(bits))
    /\ ~(~is_None(bits) /\ bits.n <= 0)
    /\ ~(~isinstance_int(channels) /\ ~is_None(channels))
    /\ ~(~is_None(channels) /\ channels.n <= 0)
    /\ In(encoding, ENCODING_VALS \o <<None>>)

\* FormatFieldTokens with the slip of writing the bits pair ahead of the rate pair.
FormatFieldTokens_bits_first(file_type, rate, bits, channels, encoding) ==
    (IF ~is_None(file_type) THEN <<"-t", Fmt(file_type)>> ELSE <<>>)
    \o (IF ~is_None(bits) THEN <<"-b", Fmt(bits)>> ELSE <<>>)
    \o (IF ~is_None(rate) THEN <<"-r", Fmt(rate)>> ELSE <<>>)
    \o (IF ~is_None(channels) THEN <<"-c", Fmt(channels)>> ELSE <<>>)
    \o (IF ~is_None(encoding) THEN <<"-e", Fmt(encoding)>> ELSE <<>>)

FormatFieldTokens(file_type, rate, bits, channels, encoding) ==
    (IF ~is_None(file_type) THEN <<"-t", Fmt(file_type)>> ELSE <<>>)
    \o (IF ~is_None(rate) THEN <<"-r", Fmt(rate)>> ELSE <<>>)
    \o (IF ~is_None(bits) THEN <<"-b", Fmt(bits)>> ELSE <<>>)
    \o (IF ~is_None(channels) THEN <<"-c", Fmt(channels)>> ELSE <<>>)
    \o (IF ~is_None(encoding) THEN <<"-e", Fmt(encoding)>> ELSE <<>>)

\* set_input_format with the slip of assigning its list to output_format.
set_input_format_to_output(self, file_type, rate, bits, channels, encoding, ignore_length) ==
    IF ~FormatFieldsValid(file_type, rate, bits, channels, encoding)
       \/ ~isinstance_bool(ignore_length)
    THEN Raise(self, "ValueError", <<>>)
    ELSE Return([self EXCEPT !.output_format =
                   FormatFieldTokens(file_type, rate, bits, channels, encoding)
                   \o (IF ignore_length.n = 1 THEN <<"--ignore-length">> ELSE <<>>)],
                "set_input_format", <<>>)

set_input_format(self, file_type, rate, bits, channels, encoding, ignore_length) ==
    IF ~FormatFieldsValid(file_type, rate, bits, channels, encoding)
    THEN Raise(self, "ValueError", <<>>)
    ELSE IF ~isinstance_bool(ignore_length) THEN Raise(self, "ValueError", <<>>)
    ELSE
      LET fmt ==
            FormatFieldTokens(file_type, rate, bits, channels, encoding)
            \o (IF ignore_length.n = 1 THEN <<"--ignore-length">> ELSE <<>>)
      IN Return([self EXCEPT !.input_format = fmt], "set_input_format", <<>>)

\* set_output_format with the slip of extending self.output_format in place.
set_output_format_merging(self, file_type, rate, bits, channels, encoding, comments, append_comments) ==
    IF ~FormatFieldsValid(file_type, rate, bits, channels, encoding)
       \/ (~is_None(comments) /\ ~isinstance_str(comments))
       \/ ~isinstance_bool(append_comments)
    THEN Raise(self, "ValueError", <<>>)
    ELSE Return([self EXCEPT !.output_format =
                   @ \o FormatFieldTokens(file_type, rate, bits, channels, encoding)
                   \o (IF ~is_None(comments)
                       THEN <<IF append_comments.n = 1 THEN "--add-comment" ELSE "--comment",
                              comments.s>>
                       ELSE <<>>)],
                "set_output_format", <<>>)

set_output_format(self, file_type, rate, bits, channels, encoding, comments, append_comments) ==
    IF ~FormatFieldsValid(file_type, rate, bits, channels, encoding)
    THEN Raise(self, "ValueError", <<>>)
    ELSE IF ~is_None(comments) /\ ~isinstance_str(comments)
    THEN Raise(self, "ValueError", <<>>)
    ELSE IF ~isinstance_bool(append_comments) THEN Raise(self, "ValueError", <<>>)
    ELSE
      LET fmt ==
            FormatFieldTokens(file_type, rate, bits, channels, encoding)
            \o (IF ~is_None(comments)
                THEN IF append_comments.n = 1
                     THEN <<"--add-comment", comments.s>>
                     ELSE <<"--comment", comments.s>>
                ELSE <<>>)
      IN Return([self EXCEPT !.output_format = fmt], "set_output_format", <<>>)

-----------------------------------------------------------------------------
(* build and preview.  The collaborators (the two path validators of file_info,
   core.sox and core.play) are outside the class: what each answers is an
   argument of the call. *)

\* The outcome of build once both paths are validated and the engine has
\* answered (status, out, err) to `args`, where `failed` tells a failure status.
Built(self, output_filepath, args, failed, out, err) ==
    LET trace == <<"validate_input_file", "validate_output_file", "sox">>
    IN IF failed
       THEN Outcome(self, "SoxError", "", <<>>, <<>>, trace, args,
                    "Stdout: " \o Fmt(out) \o "\nStderr: " \o Fmt(err))
       ELSE Outcome(self, "none", "True",
                    <<"INFO:Created " \o output_filepath.s \o " with effects: "
                        \o Join(self.effects_log, " ")>>
                    \o (IF ~is_None(out) THEN <<"INFO:[SoX] " \o Fmt(out)>> ELSE <<>>),
                    <<"build">>, trace, args, "")

\* The outcome of build when a path validator raises after the calls `trace`.
PathError(self, trace) == Outcome(self, "PathError", "", <<>>, <<>>, trace, <<>>, "")

\* build with the slip of putting the output format before the input path.
build_format_before_path(self, input_filepath, output_filepath, in_ok, out_ok, status, out, err) ==
    IF in_ok.n = 0 THEN PathError(self, <<"validate_input_file">>)
    ELSE IF out_ok.n = 0
    THEN PathError(self, <<"validate_input_file", "validate_output_file">>)
    ELSE Built(self, output_filepath,
               self.globals \o self.input_format \o self.output_format
               \o <<input_filepath.s>> \o <<output_filepath.s>> \o self.effects,
               status.n # 0, out, err)

\* build with the slip of args = self.globals: the list of the object is extended.
build_aliasing(self, input_filepath, output_filepath, in_ok, out_ok, status, out, err) ==
    IF in_ok.n = 0 THEN PathError(self, <<"validate_input_file">>)
    ELSE IF out_ok.n = 0
    THEN PathError(self, <<"validate_input_file", "validate_output_file">>)
    ELSE LET args ==
               self.globals \o self.input_format \o <<input_filepath.s>>
               \o self.output_format \o <<output_filepath.s>> \o self.effects
         IN Built([self EXCEPT !.globals = args], output_filepath, args,
                  status.n # 0, out, err)

\* build with the slip of testing status > 0.
build_positive_status(self, input_filepath, output_filepath, in_ok, out_ok, status, out, err) ==
    IF in_ok.n = 0 THEN PathError(self, <<"validate_input_file">>)
    ELSE IF out_ok.n = 0
    THEN PathError(self, <<"validate_input_file", "validate_output_file">>)
    ELSE Built(self, output_filepath,
               self.globals \o self.input_format \o <<input_filepath.s>>
               \o self.output_format \o <<output_filepath.s>> \o self.effects,
               status.n > 0, out, err)

\* build with the slip of validating the output path after the engine has run.
build_validates_late(self, input_filepath, output_filepath, in_ok, out_ok, status, out, err) ==
    IF in_ok.n = 0 THEN PathError(self, <<"validate_input_file">>)
    ELSE IF status.n # 0 \/ out_ok.n = 1
    THEN Built(self, output_filepath,
               self.globals \o self.input_format \o <<input_filepath.s>>
               \o self.output_format \o <<output_filepath.s>> \o self.effects,
               status.n # 0, out, err)
    ELSE Outcome(self, "PathError", "", <<>>, <<>>,
                 <<"validate_input_file", "sox", "validate_output_file">>,
                 self.globals \o self.input_format \o <<input_filepath.s>>
                 \o self.output_format \o <<output_filepath.s>> \o self.effects, "")

\* build with the slip of taking an empty effects_log for 'nothing to do'.
build_unless_nothing_logged(self, input_filepath, output_filepath, in_ok, out_ok, status, out, err) ==
    IF in_ok.n = 0 THEN PathError(self, <<"validate_input_file">>)
    ELSE IF out_ok.n = 0
    THEN PathError(self, <<"validate_input_file", "validate_output_file">>)
    ELSE IF Len(self.effects_log) = 0
    THEN Outcome(self, "none", "True", <<>>, <<"build">>,
                 <<"validate_input_file", "validate_output_file">>, <<>>, "")
    ELSE Built(self, output_filepath,
               self.globals \o self.input_format \o <<input_filepath.s>>
               \o self.output_format \o <<output_filepath.s>> \o self.effects,
               status.n # 0, out, err)

\* build(input_filepath, output_filepath), where validate_input_file passes iff
\* in_ok, validate_output_file passes iff out_ok, and sox answers (status, out, err).
build(self, input_filepath, output_filepath, in_ok, out_ok, status, out, err) ==
    IF in_ok.n = 0 THEN PathError(self, <<"validate_input_file">>)
    ELSE IF out_ok.n = 0
    THEN PathError(self, <<"validate_input_file", "validate_output_file">>)
    ELSE Built(self, output_filepath,
               self.globals \o self.input_format \o <<input_filepath.s>>
               \o self.output_format \o <<output_filepath.s>> \o self.effects,
               status.n # 0, out, err)

\* preview with the slip of passing the output format too, as build does.
preview_with_output_format(self, input_filepath) ==
    Outcome(self, "none", "None", <<>>, <<"preview">>, <<"play">>,
            <<"play", "--no-show-progress">> \o self.globals \o self.input_format
            \o <<input_filepath.s>> \o self.output_format \o self.effects, "")

preview(self, input_filepath) ==
    LET args ==
          <<"play", "--no-show-progress">> \o self.globals \o self.input_format
          \o <<input_filepath.s>> \o self.effects
    IN Outcome(self, "none", "None", <<>>, <<"preview">>, <<"play">>, args, "")

-----------------------------------------------------------------------------
(* Effect methods, in the order of the source *)

\* raise ValueError(...) before anything was logged
ValueError(self) == Raise(self, "ValueError", <<>>)

allpass(self, frequency, width_q) ==
    IF ~is_number(frequency) \/ Milli(frequency) <= 0 THEN ValueError(self)
    ELSE IF ~is_number(width_q) \/ Milli(width_q) <= 0 THEN ValueError(self)
    ELSE Extend(self, <<"allpass", Fmt(frequency), Fmt(width_q) \o "q">>, "allpass", <<>>)

bandpass(self, frequency, width_q, constant_skirt) ==
    IF ~is_number(frequency) \/ Milli(frequency) <= 0 THEN ValueError(self)
    ELSE IF ~is_number(width_q) \/ Milli(width_q) <= 0 THEN ValueError(self)
    ELSE IF ~isinstance_bool(constant_skirt) THEN ValueError(self)
    ELSE Extend(self,
                <<"bandpass">> \o (IF constant_skirt.n = 1 THEN <<"-c">> ELSE <<>>)
                \o <<Fmt(frequency), Fmt(width_q) \o "q">>,
                "bandpass", <<>>)

bandreject(self, frequency, width_q) ==
    IF ~is_number(frequency) \/ Milli(frequency) <= 0 THEN ValueError(self)
    ELSE IF ~is_number(width_q) \/ Milli(width_q) <= 0 THEN ValueError(self)
    ELSE Extend(self, <<"bandreject", Fmt(frequency), Fmt(width_q) \o "q">>,
                "bandreject", <<>>)

bass(self, gain_db, frequency, slope) ==
    IF ~is_number(gain_db) THEN ValueError(self)
    ELSE IF ~is_number(frequency) \/ Milli(frequency) <= 0 THEN ValueError(self)
    ELSE IF ~is_number(slope) \/ Milli(slope) <= 0 \/ Milli(slope) > 1000
    THEN ValueError(self)
    ELSE Extend(self, <<"bass", Fmt(gain_db), Fmt(frequency), Fmt(slope) \o "s">>,
                "bass", <<>>)

NotImplementedError(self) == Raise(self, "NotImplementedError", <<>>)

bend(self) == NotImplementedError(self)

biquad(self, b, a) ==
    IF ~isinstance_list(b) THEN ValueError(self)
    ELSE IF ~isinstance_list(a) THEN ValueError(self)
    ELSE IF Len(b.l) # 3 THEN ValueError(self)
    ELSE IF Len(a.l) # 3 THEN ValueError(self)
    ELSE IF ~(\A i \in 1..3 : is_number(b.l[i])) THEN ValueError(self)
    ELSE IF ~(\A i \in 1..3 : is_number(a.l[i])) THEN ValueError(self)
    ELSE Extend(self,
                <<"biquad", Fmt(b.l[1]), Fmt(b.l[2]), Fmt(b.l[3]),
                  Fmt(a.l[1]), Fmt(a.l[2]), Fmt(a.l[3])>>,
                "biquad", <<>>)

channels(self, n_channels) ==
    IF ~isinstance_int(n_channels) \/ n_channels.n <= 0 THEN ValueError(self)
    ELSE Extend(self, <<"channels", Fmt(n_channels)>>, "channels", <<>>)

\* ChorusVoices with the slip of writing each voice's decay ahead of its delay.
RECURSIVE ChorusVoices_decay_first(_, _, _, _, _, _, _)
ChorusVoices_decay_first(i, n, delays, decays, speeds, depths, shapes) ==
    IF i > n THEN <<>>
    ELSE <<Fmt(decays[i]), Fmt(delays[i]), Fmt(speeds[i]), Fmt(depths[i]),
           "-" \o Fmt(shapes[i])>>
         \o ChorusVoices_decay_first(i + 1, n, delays, decays, speeds, depths, shapes)

\* One voice's five tokens, and the tokens of voices i..n.
RECURSIVE ChorusVoices(_, _, _, _, _, _, _)
ChorusVoices(i, n, delays, decays, speeds, depths, shapes) ==
    IF i > n THEN <<>>
    ELSE <<Fmt(delays[i]), Fmt(decays[i]), Fmt(speeds[i]), Fmt(depths[i]),
           "-" \o Fmt(shapes[i])>>
         \o ChorusVoices(i + 1, n, delays, decays, speeds, depths, shapes)

\* chorus; rnd holds what the random source answers: five lists, the draws for
\* delays, decays, speeds, depths and shapes, one per voice.
chorus(self, gain_in, gain_out, n_voices, delays, decays, speeds, depths, shapes, rnd) ==
    IF ~is_number(gain_in) \/ Milli(gain_in) <= 0 \/ Milli(gain_in) > 1000
    THEN ValueError(self)
    ELSE IF ~is_number(gain_out) \/ Milli(gain_out) <= 0 \/ Milli(gain_out) > 1000
    THEN ValueError(self)
    ELSE IF ~isinstance_int(n_voices) \/ n_voices.n <= 0 THEN ValueError(self)
    ELSE
    LET n == n_voices.n
        draw(k) == SubSeq(rnd.l[k].l, 1, n)
    IN
    IF ~(is_None(delays) \/ isinstance_list(delays)) THEN ValueError(self)
    ELSE IF ~is_None(delays) /\ Len(delays.l) # n THEN ValueError(self)
    ELSE IF ~is_None(delays)
            /\ \E i \in 1..n : ~is_number(delays.l[i]) \/ Milli(delays.l[i]) < 20000
    THEN ValueError(self)
    ELSE IF ~(is_None(decays) \/ isinstance_list(decays)) THEN ValueError(self)
    ELSE IF ~is_None(decays) /\ Len(decays.l) # n THEN ValueError(self)
    ELSE IF ~is_None(decays)
            /\ \E i \in 1..n : ~is_number(decays.l[i]) \/ Milli(decays.l[i]) <= 0
                               \/ Milli(decays.l[i]) > 1000
    THEN ValueError(self)
    ELSE IF ~(is_None(speeds) \/ isinstance_list(speeds)) THEN ValueError(self)
    ELSE IF ~is_None(speeds) /\ Len(speeds.l) # n THEN ValueError(self)
    ELSE IF ~is_None(speeds)
            /\ \E i \in 1..n : ~is_number(speeds.l[i]) \/ Milli(speeds.l[i]) <= 0
    THEN ValueError(self)
    ELSE IF ~(is_None(depths) \/ isinstance_list(depths)) THEN ValueError(self)
    ELSE IF ~is_None(depths) /\ Len(depths.l) # n THEN ValueError(self)
    ELSE IF ~is_None(depths)
            /\ \E i \in 1..n : ~is_number(depths.l[i]) \/ Milli(depths.l[i]) <= 0
    THEN ValueError(self)
    ELSE IF ~(is_None(shapes) \/ isinstance_list(shapes)) THEN ValueError(self)
    ELSE IF ~is_None(shapes) /\ Len(shapes.l) # n THEN ValueError(self)
    ELSE IF ~is_None(shapes)
            /\ \E i \in 1..n : ~In(shapes.l[i], <<S("t"), S("s")>>)
    THEN ValueError(self)
    ELSE
      Extend(self,
             <<"chorus", Fmt(gain_in), Fmt(gain_out)>>
             \o ChorusVoices(1, n,
                             IF is_None(delays) THEN draw(1) ELSE delays.l,
                             IF is_None(decays) THEN draw(2) ELSE decays.l,
                             IF is_None(speeds) THEN draw(3) ELSE speeds.l,
                             IF is_None(depths) THEN draw(4) ELSE depths.l,
                             IF is_None(shapes) THEN draw(5) ELSE shapes.l),
             "chorus", <<>>)

\* sorted(points, key=lambda p: p[0]): a stable insertion by the first element.
RECURSIVE Insert(_, _)
Insert(p, sorted) ==
    IF Len(sorted) = 0 THEN <<p>>
    ELSE IF Milli(p.l[1]) < Milli(sorted[1].l[1]) THEN <<p>> \o sorted
    ELSE <<sorted[1]>> \o Insert(p, Tail(sorted))

\* SortedByX with the slip of leaving the points in the order given.
SortedByX_as_given(points) == points

RECURSIVE SortedByX(_)
SortedByX(points) ==
    IF Len(points) = 0 THEN <<>>
    ELSE Insert(points[Len(points)], SortedByX(SubSeq(points, 1, Len(points) - 1)))

\* transfer_list: x then y of each point, as text
RECURSIVE TransferList(_)
TransferList(points) ==
    IF Len(points) = 0 THEN <<>>
    ELSE <<Fmt(points[1].l[1]), Fmt(points[1].l[2])>> \o TransferList(Tail(points))

\* The default of compand's tf_points.
compand_tf_points ==
    L(<<T(<<I(-70), I(-70)>>), T(<<I(-60), I(-20)>>), T(<<I(0), I(0)>>)>>)

compand_warning ==
    "WARNING:attack_time is larger than decay_time.\nFor most situations, "
    \o "attack_time should be shorter than decay time because the human ear is "
    \o "more sensitive to sudden loud music than sudden soft music."

compand(self, attack_time, decay_time, soft_knee_db, tf_points) ==
    IF ~is_number(attack_time) \/ Milli(attack_time) <= 0 THEN ValueError(self)
    ELSE IF ~is_number(decay_time) \/ Milli(decay_time) <= 0 THEN ValueError(self)
    ELSE
    LET logs == IF Milli(attack_time) > Milli(decay_time) THEN <<compand_warning>> ELSE <<>>
        pts == tf_points.l
    IN
    IF ~(is_number(soft_knee_db) \/ is_None(soft_knee_db))
    THEN Raise(self, "ValueError", logs)
    ELSE IF ~isinstance_list(tf_points) THEN Raise(self, "TypeError", logs)
    ELSE IF Len(pts) = 0 THEN Raise(self, "ValueError", logs)
    ELSE IF \E i \in 1..Len(pts) : ~isinstance_tuple(pts[i])
    THEN Raise(self, "ValueError", logs)
    ELSE IF \E i \in 1..Len(pts) : Len(pts[i].l) # 2 THEN Raise(self, "ValueError", logs)
    ELSE IF \E i \in 1..Len(pts) : ~(is_number(pts[i].l[1]) /\ is_number(pts[i].l[2]))
    THEN Raise(self, "ValueError", logs)
    ELSE IF \E i \in 1..Len(pts) : Milli(pts[i].l[1]) > 0 \/ Milli(pts[i].l[2]) > 0
    THEN Raise(self, "ValueError", logs)
    ELSE IF Len(pts) > Cardinality({Milli(pts[i].l[1]) : i \in 1..Len(pts)})
    THEN Raise(self, "ValueError", logs)
    ELSE
      LET transfer_list == TransferList(SortedByX(pts))
      IN Extend(self,
                <<"compand", Fmt(attack_time) \o "," \o Fmt(decay_time)>>
                \o (IF ~is_None(soft_knee_db)
                    THEN <<Fmt(soft_knee_db) \o ":" \o Join(transfer_list, ",")>>
                    ELSE <<Join(transfer_list, ",")>>),
                "compand", logs)

contrast(self, amount) ==
    IF ~is_number(amount) \/ Milli(amount) < 0 \/ Milli(amount) > 100000
    THEN ValueError(self)
    ELSE Extend(self, <<"contrast", Fmt(amount)>>, "contrast", <<>>)

\* rate stands before convert, which calls it.
rate(self, samplerate, quality) ==
    IF ~is_number(samplerate) \/ Milli(samplerate) <= 0 THEN ValueError(self)
    ELSE IF ~In(quality, <<S("q"), S("l"), S("m"), S("h"), S("v")>>) THEN ValueError(self)
    ELSE Extend(self, <<"rate", "-" \o Fmt(quality), Fmt(samplerate)>>, "rate", <<>>)

\* convert with the slip of assigning its pairs to output_format, as a setter does.
convert_replacing(self, samplerate, n_channels, bitdepth) ==
    IF (~is_None(bitdepth) /\ ~In(bitdepth, <<I(8), I(16), I(24), I(32), I(64)>>))
       \/ (~is_None(n_channels) /\ (~isinstance_int(n_channels) \/ n_channels.n <= 0))
       \/ (~is_None(samplerate) /\ (~is_number(samplerate) \/ Milli(samplerate) <= 0))
    THEN ValueError(self)
    ELSE LET self2 ==
               [self EXCEPT !.output_format =
                  (IF ~is_None(bitdepth) THEN <<"-b", Fmt(bitdepth)>> ELSE <<>>)
                  \o (IF ~is_None(n_channels) THEN <<"-c", Fmt(n_channels)>> ELSE <<>>)]
         IN IF is_None(samplerate) THEN Return(self2, "convert", <<>>)
            ELSE [rate(self2, samplerate, S("h")) EXCEPT !.returned = @ \o <<"convert">>]

\* convert with the slip of logging itself as an effect.
convert_logging_itself(self, samplerate, n_channels, bitdepth) ==
    IF (~is_None(bitdepth) /\ ~In(bitdepth, <<I(8), I(16), I(24), I(32), I(64)>>))
       \/ (~is_None(n_channels) /\ (~isinstance_int(n_channels) \/ n_channels.n <= 0))
       \/ (~is_None(samplerate) /\ (~is_number(samplerate) \/ Milli(samplerate) <= 0))
    THEN ValueError(self)
    ELSE Extend([self EXCEPT !.output_format =
                   @ \o (IF ~is_None(bitdepth) THEN <<"-b", Fmt(bitdepth)>> ELSE <<>>)
                     \o (IF ~is_None(n_channels) THEN <<"-c", Fmt(n_channels)>> ELSE <<>>)],
                IF ~is_None(samplerate) THEN <<"rate", "-h", Fmt(samplerate)>> ELSE <<>>,
                "convert", <<>>)

\* convert works on the object in place: each part is checked, then written,
\* before the next part is looked at.
convert(self, samplerate, n_channels, bitdepth) ==
    LET bitdepths == <<I(8), I(16), I(24), I(32), I(64)>>
    IN
    IF ~is_None(bitdepth) /\ ~In(bitdepth, bitdepths) THEN ValueError(self)
    ELSE
    LET self1 ==
          IF ~is_None(bitdepth)
          THEN [self EXCEPT !.output_format = @ \o <<"-b", Fmt(bitdepth)>>]
          ELSE self
    IN
    IF ~is_None(n_channels) /\ (~isinstance_int(n_channels) \/ n_channels.n <= 0)
    THEN ValueError(self1)
    ELSE
    LET self2 ==
          IF ~is_None(n_channels)
          THEN [self1 EXCEPT !.output_format = @ \o <<"-c", Fmt(n_channels)>>]
          ELSE self1
    IN
    IF ~is_None(samplerate) /\ (~is_number(samplerate) \/ Milli(samplerate) <= 0)
    THEN ValueError(self2)
    ELSE IF ~is_None(samplerate)
    THEN LET r == rate(self2, samplerate, S("h"))
         IN IF r.raised # "none" THEN r
            ELSE [r EXCEPT !.returned = @ \o <<"convert">>]
    ELSE Return(self2, "convert", <<>>)

dcshift(self, shift) ==
    IF ~is_number(shift) \/ Milli(shift) < -2000 \/ Milli(shift) > 2000
    THEN ValueError(self)
    ELSE Extend(self, <<"dcshift", Fmt(shift)>>, "dcshift", <<>>)

deemph(self) == Extend(self, <<"deemph">>, "deemph", <<>>)

\* delay with the slip of leaving out the token 'delay' itself.
delay_positions_only(self, positions) ==
    IF ~isinstance_list(positions)
       \/ ~(\A i \in 1..Len(positions.l) :
               is_number(positions.l[i]) /\ Milli(positions.l[i]) >= 0)
    THEN ValueError(self)
    ELSE Extend(self, [i \in 1..Len(positions.l) |-> Fmt(positions.l[i])], "delay", <<>>)

delay(self, positions) ==
    IF ~isinstance_list(positions) THEN ValueError(self)
    ELSE IF ~(\A i \in 1..Len(positions.l) :
                is_number(positions.l[i]) /\ Milli(positions.l[i]) >= 0)
    THEN ValueError(self)
    ELSE Extend(self,
                <<"delay">> \o [i \in 1..Len(positions.l) |-> Fmt(positions.l[i])],
                "delay", <<>>)

\* downsample with the slip of testing factor < 0.
downsample_accepts_zero(self, factor) ==
    IF ~isinstance_int(factor) \/ factor.n < 0 THEN Raise(self, "ValueError", <<>>)
    ELSE Return([self EXCEPT !.effects = @ \o <<"downsample", Fmt(factor)>>,
                             !.effects_log = Append(@, "downsample")],
                "downsample", <<>>)

downsample(self, factor) ==
    IF ~isinstance_int(factor) \/ factor.n < 1 THEN ValueError(self)
    ELSE Extend(self, <<"downsample", Fmt(factor)>>, "downsample", <<>>)

earwax(self) == Extend(self, <<"earwax">>, "earwax", <<>>)

echo(self) == NotImplementedError(self)

echos(self) == NotImplementedError(self)

equalizer(self, frequency, width_q, gain_db) ==
    IF ~is_number(frequency) \/ Milli(frequency) <= 0 THEN ValueError(self)
    ELSE IF ~is_number(width_q) \/ Milli(width_q) <= 0 THEN ValueError(self)
    ELSE IF ~is_number(gain_db) THEN ValueError(self)
    ELSE Extend(self,
                <<"equalizer", Fmt(frequency), Fmt(width_q) \o "q", Fmt(gain_db)>>,
                "equalizer", <<>>)

\* fade with the slip of logging the effect whether or not it has tokens.
fade_always_logs(self, fade_in_len, fade_out_len, fade_shape) ==
    IF ~In(fade_shape, <<S("q"), S("h"), S("t"), S("l"), S("p")>>)
       \/ ~is_number(fade_in_len) \/ Milli(fade_in_len) < 0
       \/ ~is_number(fade_out_len) \/ Milli(fade_out_len) < 0
    THEN Raise(self, "ValueError", <<>>)
    ELSE Return([self EXCEPT
                   !.effects =
                     @ \o (IF Milli(fade_in_len) > 0
                           THEN <<"fade", Fmt(fade_shape), Fmt(fade_in_len)>> ELSE <<>>)
                     \o (IF Milli(fade_out_len) > 0
                         THEN <<"reverse", "fade", Fmt(fade_shape), Fmt(fade_out_len),
                                "reverse">>
                         ELSE <<>>),
                   !.effects_log = Append(@, "fade")],
                "fade", <<>>)

\* fade with the slip of leaving the fade-out group without its second reverse.
fade_out_left_reversed(self, fade_in_len, fade_out_len, fade_shape) ==
    IF ~In(fade_shape, <<S("q"), S("h"), S("t"), S("l"), S("p")>>)
       \/ ~is_number(fade_in_len) \/ Milli(fade_in_len) < 0
       \/ ~is_number(fade_out_len) \/ Milli(fade_out_len) < 0
    THEN ValueError(self)
    ELSE IF Milli(fade_in_len) = 0 /\ Milli(fade_out_len) = 0 THEN Return(self, "fade", <<>>)
    ELSE Extend(self,
                (IF Milli(fade_in_len) > 0
                 THEN <<"fade", Fmt(fade_shape), Fmt(fade_in_len)>> ELSE <<>>)
                \o (IF Milli(fade_out_len) > 0
                    THEN <<"reverse", "fade", Fmt(fade_shape), Fmt(fade_out_len)>>
                    ELSE <<>>),
                "fade", <<>>)

fade(self, fade_in_len, fade_out_len, fade_shape) ==
    IF ~In(fade_shape, <<S("q"), S("h"), S("t"), S("l"), S("p")>>) THEN ValueError(self)
    ELSE IF ~is_number(fade_in_len) \/ Milli(fade_in_len) < 0 THEN ValueError(self)
    ELSE IF ~is_number(fade_out_len) \/ Milli(fade_out_len) < 0 THEN ValueError(self)
    ELSE
      LET effect_args ==
            (IF Milli(fade_in_len) > 0
             THEN <<"fade", Fmt(fade_shape), Fmt(fade_in_len)>> ELSE <<>>)
            \o (IF Milli(fade_out_len) > 0
                THEN <<"reverse", "fade", Fmt(fade_shape), Fmt(fade_out_len), "reverse">>
                ELSE <<>>)
      IN IF Len(effect_args) > 0
         THEN Extend(self, effect_args, "fade", <<>>)
         ELSE Return(self, "fade", <<>>)

fir(self) == NotImplementedError(self)

flanger(self) == NotImplementedError(self)

gain(self, gain_db, normalize, limiter, balance) ==
    IF ~is_number(gain_db) THEN ValueError(self)
    ELSE IF ~isinstance_bool(normalize) THEN ValueError(self)
    ELSE IF ~isinstance_bool(limiter) THEN ValueError(self)
    ELSE IF ~In(balance, <<None, S("e"), S("B"), S("b")>>) THEN ValueError(self)
    ELSE Extend(self,
                <<"gain">>
                \o (IF ~is_None(balance) THEN <<"-" \o Fmt(balance)>> ELSE <<>>)
                \o (IF normalize.n = 1 THEN <<"-n">> ELSE <<>>)
                \o (IF limiter.n = 1 THEN <<"-l">> ELSE <<>>)
                \o <<Fmt(gain_db)>>,
                "gain", <<>>)

highpass(self, frequency, width_q, n_poles) ==
    IF ~is_number(frequency) \/ Milli(frequency) <= 0 THEN ValueError(self)
    ELSE IF ~is_number(width_q) \/ Milli(width_q) <= 0 THEN ValueError(self)
    ELSE IF ~In(n_poles, <<I(1), I(2)>>) THEN ValueError(self)
    ELSE Extend(self,
                <<"highpass", "-" \o Fmt(n_poles), Fmt(frequency)>>
                \o (IF PyEq(n_poles, I(2)) THEN <<Fmt(width_q) \o "q">> ELSE <<>>),
                "highpass", <<>>)

lowpass(self, frequency, width_q, n_poles) ==
    IF ~is_number(frequency) \/ Milli(frequency) <= 0 THEN ValueError(self)
    ELSE IF ~is_number(width_q) \/ Milli(width_q) <= 0 THEN ValueError(self)
    ELSE IF ~In(n_poles, <<I(1), I(2)>>) THEN ValueError(self)
    ELSE Extend(self,
                <<"lowpass", "-" \o Fmt(n_poles), Fmt(frequency)>>
                \o (IF PyEq(n_poles, I(2)) THEN <<Fmt(width_q) \o "q">> ELSE <<>>),
                "lowpass", <<>>)

hilbert(self) == NotImplementedError(self)

loudness(self, gain_db, reference_level) ==
    IF ~is_number(gain_db) THEN ValueError(self)
    ELSE IF ~is_number(reference_level) THEN ValueError(self)
    ELSE IF Milli(reference_level) > 75000 \/ Milli(reference_level) < 50000
    THEN ValueError(self)
    ELSE Extend(self, <<"loudness", Fmt(gain_db), Fmt(reference_level)>>,
                "loudness", <<>>)

mcompand(self) == NotImplementedError(self)

noisered(self) == NotImplementedError(self)

norm(self, db_level) ==
    IF ~is_number(db_level) THEN ValueError(self)
    ELSE Extend(self, <<"norm", Fmt(db_level)>>, "norm", <<>>)

oops(self) == NotImplementedError(self)

overdrive(self, gain_db, colour) ==
    IF ~is_number(gain_db) THEN ValueError(self)
    ELSE IF ~is_number(colour) THEN ValueError(self)
    ELSE Extend(self, <<"overdrive", Fmt(gain_db), Fmt(colour)>>, "overdrive", <<>>)

pad(self, start_duration, end_duration) ==
    IF ~is_number(start_duration) \/ Milli(start_duration) < 0 THEN ValueError(self)
    ELSE IF ~is_number(end_duration) \/ Milli(end_duration) < 0 THEN ValueError(self)
    ELSE Extend(self, <<"pad", Fmt(start_duration), Fmt(end_duration)>>, "pad", <<>>)

phaser(self) == NotImplementedError(self)

pitch_warning == "WARNING:Using an extreme pitch shift. Quality of results will be poor"

pitch(self, n_semitones, quick) ==
    IF ~is_number(n_semitones) THEN ValueError(self)
    ELSE
    LET logs ==
          IF Milli(n_semitones) < -12000 \/ Milli(n_semitones) > 12000
          THEN <<pitch_warning>> ELSE <<>>
    IN
    IF ~isinstance_bool(quick) THEN Raise(self, "ValueError", logs)
    ELSE Extend(self,
                <<"pitch">> \o (IF quick.n = 1 THEN <<"-q">> ELSE <<>>)
                \o <<Fmt(Mul(n_semitones, F(100000)))>>,
                "pitch", logs)

remix(self) == NotImplementedError(self)

repeat(self) == NotImplementedError(self)

reverb(self, reverberance, high_freq_damping, room_scale, stereo_depth, pre_delay, wet_gain, wet_only) ==
    IF ~is_number(reverberance) \/ Milli(reverberance) < 0 \/ Milli(reverberance) > 100000
    THEN ValueError(self)
    ELSE IF ~is_number(high_freq_damping) \/ Milli(high_freq_damping) < 0
            \/ Milli(high_freq_damping) > 100000
    THEN ValueError(self)
    ELSE IF ~is_number(room_scale) \/ Milli(room_scale) < 0 \/ Milli(room_scale) > 100000
    THEN ValueError(self)
    ELSE IF ~is_number(stereo_depth) \/ Milli(stereo_depth) < 0
            \/ Milli(stereo_depth) > 100000
    THEN ValueError(self)
    ELSE IF ~is_number(pre_delay) \/ Milli(pre_delay) < 0 THEN ValueError(self)
    ELSE IF ~is_number(wet_gain) THEN ValueError(self)
    ELSE IF ~isinstance_bool(wet_only) THEN ValueError(self)
    ELSE Extend(self,
                <<"reverb">> \o (IF wet_only.n = 1 THEN <<"-w">> ELSE <<>>)
                \o <<Fmt(reverberance), Fmt(high_freq_damping), Fmt(room_scale),
                     Fmt(stereo_depth), Fmt(pre_delay), Fmt(wet_gain)>>,
                "reverb", <<>>)

reverse(self) == Extend(self, <<"reverse">>, "reverse", <<>>)

\* silence with the slip of not reversing back after trimming the end.
silence_left_reversed(self, location, silence_threshold, min_silence_duration, buffer_around_silence) ==
    IF ~In(location, <<I(-1), I(0), I(1)>>)
       \/ ~is_number(silence_threshold) \/ Milli(silence_threshold) < 0
       \/ Milli(silence_threshold) >= 100000
       \/ ~is_number(min_silence_duration) \/ Milli(min_silence_duration) <= 0
       \/ ~isinstance_bool(buffer_around_silence)
    THEN ValueError(self)
    ELSE Extend(self,
                (IF PyEq(location, I(-1)) THEN <<"reverse">> ELSE <<>>)
                \o (IF buffer_around_silence.n = 1 THEN <<"silence", "-l">>
                    ELSE <<"silence">>)
                \o <<"1", Fmt(min_silence_duration), Fmt(silence_threshold) \o "%">>
                \o (IF PyEq(location, I(0))
                    THEN <<"-1", Fmt(min_silence_duration), Fmt(silence_threshold) \o "%">>
                    ELSE <<>>),
                "silence", <<>>)

silence(self, location, silence_threshold, min_silence_duration, buffer_around_silence) ==
    IF ~In(location, <<I(-1), I(0), I(1)>>) THEN ValueError(self)
    ELSE IF ~is_number(silence_threshold) \/ Milli(silence_threshold) < 0
    THEN ValueError(self)
    ELSE IF Milli(silence_threshold) >= 100000 THEN ValueError(self)
    ELSE IF ~is_number(min_silence_duration) \/ Milli(min_silence_duration) <= 0
    THEN ValueError(self)
    ELSE IF ~isinstance_bool(buffer_around_silence) THEN ValueError(self)
    ELSE Extend(self,
                (IF PyEq(location, I(-1)) THEN <<"reverse">> ELSE <<>>)
                \o (IF buffer_around_silence.n = 1 THEN <<"silence", "-l">>
                    ELSE <<"silence">>)
                \o <<"1", Fmt(min_silence_duration), Fmt(silence_threshold) \o "%">>
                \o (IF PyEq(location, I(0))
                    THEN <<"-1", Fmt(min_silence_duration), Fmt(silence_threshold) \o "%">>
                    ELSE <<>>)
                \o (IF PyEq(location, I(-1)) THEN <<"reverse">> ELSE <<>>),
                "silence", <<>>)

sinc(self) == NotImplementedError(self)

speed(self) == NotImplementedError(self)

splice(self) == NotImplementedError(self)

swap(self) == Extend(self, <<"swap">>, "swap", <<>>)

\* stretch with the slip of a body that does nothing and returns.
stretch_passes(self) == Return(self, "stretch", <<>>)

stretch(self) == NotImplementedError(self)

tempo_warning ==
    "WARNING:Using an extreme time stretching factor. Quality of results will be poor"

\* tempo with the slip of treating an extreme factor as an invalid one.
tempo_rejects_extreme(self, factor, audio_type, quick) ==
    IF ~is_number(factor) \/ Milli(factor) <= 0 THEN ValueError(self)
    ELSE IF Milli(factor) < 500 \/ Milli(factor) > 2000
    THEN Raise(self, "ValueError", <<tempo_warning>>)
    ELSE IF ~In(audio_type, <<None, S("m"), S("s"), S("l")>>) \/ ~isinstance_bool(quick)
    THEN ValueError(self)
    ELSE Extend(self,
                <<"tempo">> \o (IF quick.n = 1 THEN <<"-q">> ELSE <<>>)
                \o (IF ~is_None(audio_type) THEN <<"-" \o Fmt(audio_type)>> ELSE <<>>)
                \o <<Fmt(factor)>>,
                "tempo", <<>>)

tempo(self, factor, audio_type, quick) ==
    IF ~is_number(factor) \/ Milli(factor) <= 0 THEN ValueError(self)
    ELSE
    LET logs ==
          IF Milli(factor) < 500 \/ Milli(factor) > 2000 THEN <<tempo_warning>> ELSE <<>>
    IN
    IF ~In(audio_type, <<None, S("m"), S("s"), S("l")>>) THEN Raise(self, "ValueError", logs)
    ELSE IF ~isinstance_bool(quick) THEN Raise(self, "ValueError", logs)
    ELSE Extend(self,
                <<"tempo">> \o (IF quick.n = 1 THEN <<"-q">> ELSE <<>>)
                \o (IF ~is_None(audio_type) THEN <<"-" \o Fmt(audio_type)>> ELSE <<>>)
                \o <<Fmt(factor)>>,
                "tempo", logs)

treble(self, gain_db, frequency, slope) ==
    IF ~is_number(gain_db) THEN ValueError(self)
    ELSE IF ~is_number(frequency) \/ Milli(frequency) <= 0 THEN ValueError(self)
    ELSE IF ~is_number(slope) \/ Milli(slope) <= 0 \/ Milli(slope) > 1000
    THEN ValueError(self)
    ELSE Extend(self, <<"treble", Fmt(gain_db), Fmt(frequency), Fmt(slope) \o "s">>,
                "treble", <<>>)

tremolo(self, speed_, depth) ==
    IF ~is_number(speed_) \/ Milli(speed_) <= 0 THEN ValueError(self)
    ELSE IF ~is_number(depth) \/ Milli(depth) <= 0 \/ Milli(depth) > 100000
    THEN ValueError(self)
    ELSE Extend(self, <<"tremolo", Fmt(speed_), Fmt(depth)>>, "tremolo", <<>>)

\* trim with the slip of passing the end time where the engine expects a duration.
trim_to_end_time(self, start_time, end_time) ==
    IF ~is_number(start_time) \/ Milli(start_time) < 0
       \/ ~is_number(end_time) \/ Milli(end_time) < 0
       \/ Milli(start_time) >= Milli(end_time)
    THEN ValueError(self)
    ELSE Extend(self, <<"trim", Fmt(start_time), Fmt(end_time)>>, "trim", <<>>)

trim(self, start_time, end_time) ==
    IF ~is_number(start_time) \/ Milli(start_time) < 0 THEN ValueError(self)
    ELSE IF ~is_number(end_time) \/ Milli(end_time) < 0 THEN ValueError(self)
    ELSE IF Milli(start_time) >= Milli(end_time) THEN ValueError(self)
    ELSE Extend(self, <<"trim", Fmt(start_time), Fmt(Sub(end_time, start_time))>>,
                "trim", <<>>)

upsample(self, factor) ==
    IF ~isinstance_int(factor) \/ factor.n < 1 THEN ValueError(self)
    ELSE Extend(self, <<"upsample", Fmt(factor)>>, "upsample", <<>>)

\* vad with the normalize token put after the first reverse.
vad_norm_inside(self, location, normalize, activity_threshold, min_activity_duration, initial_search_buffer, max_gap, initial_pad) ==
    IF ~In(location, <<I(-1), I(1)>>) \/ ~isinstance_bool(normalize)
       \/ ~is_number(activity_threshold)
       \/ ~is_number(min_activity_duration) \/ Milli(min_activity_duration) < 0
       \/ ~is_number(initial_search_buffer) \/ Milli(initial_search_buffer) < 0
       \/ ~is_number(max_gap) \/ Milli(max_gap) < 0
       \/ ~is_number(initial_pad) \/ Milli(initial_pad) < 0
    THEN ValueError(self)
    ELSE Extend(self,
                (IF PyEq(location, I(-1)) THEN <<"reverse">> ELSE <<>>)
                \o (IF normalize.n = 1 THEN <<"norm">> ELSE <<>>)
                \o <<"vad", "-t", Fmt(activity_threshold),
                     "-T", Fmt(min_activity_duration),
                     "-s", Fmt(initial_search_buffer),
                     "-g", Fmt(max_gap), "-p", Fmt(initial_pad)>>
                \o (IF PyEq(location, I(-1)) THEN <<"reverse">> ELSE <<>>),
                "vad", <<>>)

vad(self, location, normalize, activity_threshold, min_activity_duration, initial_search_buffer, max_gap, initial_pad) ==
    IF ~In(location, <<I(-1), I(1)>>) THEN ValueError(self)
    ELSE IF ~isinstance_bool(normalize) THEN ValueError(self)
    ELSE IF ~is_number(activity_threshold) THEN ValueError(self)
    ELSE IF ~is_number(min_activity_duration) \/ Milli(min_activity_duration) < 0
    THEN ValueError(self)
    ELSE IF ~is_number(initial_search_buffer) \/ Milli(initial_search_buffer) < 0
    THEN ValueError(self)
    ELSE IF ~is_number(max_gap) \/ Milli(max_gap) < 0 THEN ValueError(self)
    ELSE IF ~is_number(initial_pad) \/ Milli(initial_pad) < 0 THEN ValueError(self)
    ELSE Extend(self,
                (IF normalize.n = 1 THEN <<"norm">> ELSE <<>>)
                \o (IF PyEq(location, I(-1)) THEN <<"reverse">> ELSE <<>>)
                \o <<"vad", "-t", Fmt(activity_threshold),
                     "-T", Fmt(min_activity_duration),
                     "-s", Fmt(initial_search_buffer),
                     "-g", Fmt(max_gap), "-p", Fmt(initial_pad)>>
                \o (IF PyEq(location, I(-1)) THEN <<"reverse">> ELSE <<>>),
                "vad", <<>>)

-----------------------------------------------------------------------------
(* Calls *)

\* self.<op>(*a)
Invoke(op, self, a) ==
    CASE op = "set_globals" -> set_globals(self, a[1], a[2], a[3], a[4], a[5])
      [] op = "set_input_format" ->
           set_input_format(self, a[1], a[2], a[3], a[4], a[5], a[6])
      [] op = "set_output_format" ->
           set_output_format(self, a[1], a[2], a[3], a[4], a[5], a[6], a[7])
      [] op = "build" -> build(self, a[1], a[2], a[3], a[4], a[5], a[6], a[7])
      [] op = "preview" -> preview(self, a[1])
      [] op = "allpass" -> allpass(self, a[1], a[2])
      [] op = "bandpass" -> bandpass(self, a[1], a[2], a[3])
      [] op = "bandreject" -> bandreject(self, a[1], a[2])
      [] op = "bass" -> bass(self, a[1], a[2], a[3])
      [] op = "bend" -> bend(self)
      [] op = "biquad" -> biquad(self, a[1], a[2])
      [] op = "channels" -> channels(self, a[1])
      [] op = "chorus" ->
           chorus(self, a[1], a[2], a[3], a[4], a[5], a[6], a[7], a[8], a[9])
      [] op = "compand" -> compand(self, a[1], a[2], a[3], a[4])
      [] op = "contrast" -> contrast(self, a[1])
      [] op = "convert" -> convert(self, a[1], a[2], a[3])
      [] op = "dcshift" -> dcshift(self, a[1])
      [] op = "deemph" -> deemph(self)
      [] op = "delay" -> delay(self, a[1])
      [] op = "downsample" -> downsample(self, a[1])
      [] op = "earwax" -> earwax(self)
      [] op = "echo" -> echo(self)
      [] op = "echos" -> echos(self)
      [] op = "equalizer" -> equalizer(self, a[1], a[2], a[3])
      [] op = "fade" -> fade(self, a[1], a[2], a[3])
      [] op = "fir" -> fir(self)
      [] op = "flanger" -> flanger(self)
      [] op = "gain" -> gain(self, a[1], a[2], a[3], a[4])
      [] op = "highpass" -> highpass(self, a[1], a[2], a[3])
      [] op = "lowpass" -> lowpass(self, a[1], a[2], a[3])
      [] op = "hilbert" -> hilbert(self)
      [] op = "loudness" -> loudness(self, a[1], a[2])
      [] op = "mcompand" -> mcompand(self)
      [] op = "noisered" -> noisered(self)
      [] op = "norm" -> norm(self, a[1])
      [] op = "oops" -> oops(self)
      [] op = "overdrive" -> overdrive(self, a[1], a[2])
      [] op = "pad" -> pad(self, a[1], a[2])
      [] op = "phaser" -> phaser(self)
      [] op = "pitch" -> pitch(self, a[1], a[2])
      [] op = "rate" -> rate(self, a[1], a[2])
      [] op = "remix" -> remix(self)
      [] op = "repeat" -> repeat(self)
      [] op = "reverb" -> reverb(self, a[1], a[2], a[3], a[4], a[5], a[6], a[7])
      [] op = "reverse" -> reverse(self)
      [] op = "silence" -> silence(self, a[1], a[2], a[3], a[4])
      [] op = "sinc" -> sinc(self)
      [] op = "speed" -> speed(self)
      [] op = "splice" -> splice(self)
      [] op = "swap" -> swap(self)
      [] op = "stretch" -> stretch(self)
      [] op = "tempo" -> tempo(self, a[1], a[2], a[3])
      [] op = "treble" -> treble(self, a[1], a[2], a[3])
      [] op = "tremolo" -> tremolo(self, a[1], a[2])
      [] op = "trim" -> trim(self, a[1], a[2])
      [] op = "upsample" -> upsample(self, a[1])
      [] op = "vad" -> vad(self, a[1], a[2], a[3], a[4], a[5], a[6], a[7])

Setters == {"set_globals", "set_input_format", "set_output_format"}

Unimplemented ==
    {"bend", "echo", "echos", "fir", "flanger", "hilbert", "mcompand", "noisered",
     "oops", "phaser", "remix", "repeat", "sinc", "speed", "splice", "stretch"}

\* The effect methods; convert, the conversion helper, is kept apart.
EffectMethods ==
    {"allpass", "bandpass", "bandreject", "bass", "biquad", "channels", "chorus",
     "compand", "contrast", "dcshift", "deemph", "delay", "downsample", "earwax",
     "equalizer", "fade", "gain", "highpass", "lowpass", "loudness", "norm",
     "overdrive", "pad", "pitch", "rate", "reverb", "reverse", "silence", "swap",
     "tempo", "treble", "tremolo", "trim", "upsample", "vad"} \cup Unimplemented

\* The builder methods: all but the two terminal operations.
BuilderMethods == Setters \cup EffectMethods \cup {"convert"}

-----------------------------------------------------------------------------
(* The arguments the calls are made with: for each method some tuples every
   check accepts and, for each check of the method, a tuple that it rejects. *)

True == B(TRUE)
False == B(FALSE)

\* What the random source may answer to one chorus call.
Draw1 ==
    L(<<L(<<F(40000), F(52500)>>), L(<<F(300), F(350)>>), L(<<F(250), F(400)>>),
        L(<<F(1000), F(2500)>>), L(<<S("t"), S("s")>>)>>)
Draw2 ==
    L(<<L(<<F(60000), F(45250)>>), L(<<F(400), F(325)>>), L(<<F(375), F(250)>>),
        L(<<F(3000), F(1500)>>), L(<<S("s"), S("s")>>)>>)
Draws == {Draw1, Draw2}

Inputs(op) ==
    CASE op = "set_globals" ->
           {<<False, False, False, False, I(2)>>,
            <<True, True, True, True, I(4)>>,
            <<False, True, False, True, I(0)>>,
            <<True, False, False, False, F(2000)>>,
            <<I(1), False, False, False, I(2)>>,
            <<False, None, False, False, I(2)>>,
            <<False, False, S("yes"), False, I(2)>>,
            <<False, False, False, I(0), I(2)>>,
            <<False, False, False, False, I(5)>>,
            <<True, True, False, False, None>>}
      [] op = "set_input_format" ->
           {<<None, None, None, None, None, False>>,
            <<S("wav"), F(44100000), I(16), I(2), S("signed-integer"), True>>,
            <<None, I(8000), None, I(1), None, False>>,
            <<S("xyz"), None, None, None, None, False>>,
            <<S("wav"), S("fast"), None, None, None, False>>,
            <<S("wav"), I(0), None, None, None, False>>,
            <<None, F(-1000), I(16), None, None, False>>,
            <<None, None, F(16000), None, None, False>>,
            <<None, I(8000), I(0), None, None, False>>,
            <<None, None, I(16), S("2"), None, False>>,
            <<None, None, I(16), I(-1), None, False>>,
            <<S("raw"), I(8000), I(16), I(1), S("pcm"), False>>,
            <<S("raw"), I(8000), I(16), I(1), S("a-law"), I(1)>>}
      [] op = "set_output_format" ->
           {<<None, None, None, None, None, None, True>>,
            <<S("wav"), I(8000), I(16), I(1), S("a-law"), S("note"), True>>,
            <<None, None, I(8), None, None, S("note"), False>>,
            <<None, None, I(24), I(2), None, None, True>>,
            <<S("ogg?"), None, None, None, None, None, True>>,
            <<S("wav"), I(0), None, None, None, None, True>>,
            <<S("wav"), I(8000), I(-8), None, None, None, True>>,
            <<S("wav"), I(8000), I(16), I(0), None, None, True>>,
            <<S("wav"), I(8000), I(16), I(1), S("pcm"), None, True>>,
            <<S("wav"), I(8000), I(16), I(1), S("a-law"), I(3), True>>,
            <<S("wav"), I(8000), I(16), I(1), S("a-law"), S("note"), None>>}
      [] op = "build" ->
           {<<S("in.wav"), S("out.wav"), True, True, I(0), None, None>>,
            <<S("in.wav"), S("out.wav"), True, True, I(0), S("sox: done"), S("")>>,
            <<S("a.wav"), S("b.wav"), True, True, I(0), None, None>>,
            <<S("in.wav"), S("out.wav"), True, True, I(1), S("[out]"), S("[err] bad effect")>>,
            <<S("in.wav"), S("out.wav"), True, True, I(2), None, S("[err] no such file")>>,
            <<S("in.wav"), S("out.wav"), True, True, I(-1), S("[out]"), None>>,
            <<S("none.wav"), S("out.wav"), False, True, I(0), None, None>>,
            <<S("in.wav"), S("/x/out.wav"), True, False, I(0), None, None>>,
            <<S("none.wav"), S("/x/out.wav"), False, False, I(0), None, None>>}
      [] op = "preview" -> {<<S("in.wav")>>, <<S("a.wav")>>}
      [] op = "allpass" ->
           {<<I(500), F(2000)>>,
            <<I(0), F(2000)>>, <<F(-1500), F(2000)>>, <<S("x"), F(2000)>>,
            <<I(500), I(0)>>, <<I(500), F(-500)>>, <<I(500), None>>}
      [] op = "bandpass" ->
           {<<I(500), F(2000), False>>, <<F(440500), I(3), True>>,
            <<I(0), F(2000), False>>, <<I(-500), F(2000), False>>,
            <<I(500), F(0), False>>, <<I(500), I(-2), True>>,
            <<I(500), F(2000), I(1)>>}
      [] op = "bandreject" ->
           {<<I(500), F(2000)>>,
            <<F(0), F(2000)>>, <<I(-500), F(2000)>>,
            <<I(500), I(0)>>, <<I(500), F(-2000)>>}
      [] op = "bass" ->
           {<<I(-3), F(100000), F(500)>>,
            <<None, F(100000), F(500)>>,
            <<I(-3), I(0), F(500)>>, <<I(-3), F(-100000), F(500)>>,
            <<I(-3), F(100000), I(0)>>, <<I(-3), F(100000), F(1500)>>}
      [] op \in Unimplemented \cup {"deemph", "earwax", "reverse", "swap"} -> {<<>>}
      [] op = "biquad" ->
           {<<L(<<I(1), I(0), I(0)>>), L(<<F(1000), F(500), I(0)>>)>>,
            <<T(<<I(1), I(0), I(0)>>), L(<<F(1000), F(500), I(0)>>)>>,
            <<L(<<I(1), I(0), I(0)>>), None>>,
            <<L(<<I(1), I(0)>>), L(<<F(1000), F(500), I(0)>>)>>,
            <<L(<<I(1), I(0), I(0)>>), L(<<F(1000), F(500), I(0), I(0)>>)>>,
            <<L(<<I(1), S("x"), I(0)>>), L(<<F(1000), F(500), I(0)>>)>>,
            <<L(<<I(1), I(0), I(0)>>), L(<<F(1000), None, I(0)>>)>>}
      [] op = "channels" -> {<<I(2)>>, <<I(0)>>, <<I(-1)>>, <<F(2000)>>}
      [] op = "chorus" ->
           {<<F(500), F(900), I(1), None, None, None, None, None, d>> : d \in Draws}
           \cup
           \* the draws are not looked at when every list is given or the call fails
           LET d == Draw1 IN
           {<<F(500), F(900), I(2), L(<<I(50), F(60500)>>), L(<<F(400), F(300)>>),
              L(<<F(250), I(1)>>), L(<<I(2), F(1500)>>), L(<<S("s"), S("t")>>), d>>,
            <<F(500), I(1), I(2), L(<<I(50), F(60500)>>), None, None, None,
              L(<<S("t"), S("t")>>), d>>,
            <<I(0), F(900), I(1), None, None, None, None, None, d>>,
            <<F(500), F(1500), I(1), None, None, None, None, None, d>>,
            <<F(500), F(900), I(0), None, None, None, None, None, d>>,
            <<F(500), F(900), I(-1), None, None, None, None, None, d>>,
            <<F(500), F(900), I(2), T(<<I(50), I(50)>>), None, None, None, None, d>>,
            <<F(500), F(900), I(2), L(<<I(50)>>), None, None, None, None, d>>,
            <<F(500), F(900), I(1), L(<<I(10)>>), None, None, None, None, d>>,
            <<F(500), F(900), I(1), None, S("x"), None, None, None, d>>,
            <<F(500), F(900), I(1), None, L(<<F(400), F(400)>>), None, None, None, d>>,
            <<F(500), F(900), I(1), None, L(<<F(1500)>>), None, None, None, d>>,
            <<F(500), F(900), I(1), None, None, I(1), None, None, d>>,
            <<F(500), F(900), I(1), None, None, L(<<>>), None, None, d>>,
            <<F(500), F(900), I(1), None, None, L(<<I(0)>>), None, None, d>>,
            <<F(500), F(900), I(1), None, None, None, I(2), None, d>>,
            <<F(500), F(900), I(2), None, None, None, L(<<I(2)>>), None, d>>,
            <<F(500), F(900), I(1), None, None, None, L(<<I(-2)>>), None, d>>,
            <<F(500), F(900), I(1), None, None, None, None, S("s"), d>>,
            <<F(500), F(900), I(1), None, None, None, None, L(<<S("s"), S("t")>>), d>>,
            <<F(500), F(900), I(1), L(<<I(50)>>), L(<<F(400)>>), L(<<I(1)>>),
              L(<<I(2)>>), L(<<S("x")>>), d>>}
      [] op = "compand" ->
           {<<F(300), F(800), F(6000), compand_tf_points>>,
            <<F(300), F(800), None,
              L(<<T(<<I(-20), I(-20)>>), T(<<I(-70), I(-70)>>), T(<<I(0), I(-5)>>)>>)>>,
            <<I(1), F(500), F(6000), compand_tf_points>>,
            <<I(0), F(800), F(6000), compand_tf_points>>,
            <<F(-300), F(800), F(6000), compand_tf_points>>,
            <<F(300), I(0), F(6000), compand_tf_points>>,
            <<F(300), F(-800), F(6000), compand_tf_points>>,
            <<F(300), F(800), S("soft"), compand_tf_points>>,
            <<F(300), F(800), F(6000), T(<<T(<<I(-70), I(-70)>>)>>)>>,
            <<F(300), F(800), F(6000), None>>,
            <<F(300), F(800), F(6000), L(<<>>)>>,
            <<F(300), F(800), F(6000), L(<<L(<<I(-70), I(-70)>>)>>)>>,
            <<F(300), F(800), F(6000), L(<<T(<<I(-70), I(-70), I(-70)>>)>>)>>,
            <<F(300), F(800), F(6000), L(<<T(<<I(-70), S("x")>>)>>)>>,
            <<F(300), F(800), F(6000), L(<<T(<<I(-70), I(-70)>>), T(<<I(0), I(5)>>)>>)>>,
            <<F(300), F(800), F(6000),
              L(<<T(<<I(-10), I(-10)>>), T(<<I(-10), I(-5)>>)>>)>>,
            <<I(1), F(500), F(6000),
              L(<<T(<<I(-10), I(-10)>>), T(<<F(-10000), I(-5)>>)>>)>>}
      [] op = "contrast" -> {<<I(75)>>, <<I(-1)>>, <<I(101)>>, <<None>>}
      [] op = "convert" ->
           {<<None, None, None>>,
            <<None, None, I(16)>>,
            <<None, I(2), None>>,
            <<I(8000), None, None>>,
            <<F(44100000), I(1), I(8)>>,
            <<None, None, I(12)>>,
            <<I(8000), I(2), S("16")>>,
            <<None, I(0), None>>,
            <<None, I(0), I(16)>>,
            <<None, I(-1), I(16)>>,
            <<None, F(2000), None>>,
            <<I(0), None, None>>,
            <<I(0), I(2), None>>,
            <<I(-8000), I(2), I(16)>>,
            <<S("x"), None, I(16)>>}
      [] op = "dcshift" -> {<<F(500)>>, <<F(2500)>>, <<I(-3)>>, <<None>>}
      [] op = "delay" ->
           {<<L(<<I(0), F(1500)>>)>>, <<L(<<>>)>>,
            <<T(<<I(0), F(1500)>>)>>, <<L(<<I(0), I(-1)>>)>>, <<L(<<S("x")>>)>>}
      [] op = "downsample" -> {<<I(2)>>, <<I(0)>>, <<I(-2)>>, <<F(2000)>>}
      [] op = "equalizer" ->
           {<<I(500), F(2000), F(-3000)>>,
            <<I(0), F(2000), F(-3000)>>, <<F(-500000), F(2000), F(-3000)>>,
            <<I(500), I(0), F(-3000)>>, <<I(500), I(-2), F(-3000)>>,
            <<I(500), F(2000), None>>}
      [] op = "fade" ->
           {<<F(2000), F(0), S("q")>>,
            <<F(0), F(3000), S("q")>>,
            <<I(2), F(3500), S("h")>>,
            <<F(0), F(0), S("q")>>,
            <<I(0), I(0), S("t")>>,
            <<F(2000), F(0), S("x")>>,
            <<F(0), F(0), None>>,
            <<F(-2000), F(0), S("q")>>,
            <<None, F(3000), S("q")>>,
            <<F(2000), I(-1), S("q")>>}
      [] op = "gain" ->
           {<<F(0), True, False, None>>,
            <<I(-6), False, True, S("e")>>,
            <<S("loud"), True, False, None>>,
            <<F(0), I(1), False, None>>,
            <<F(0), True, None, None>>,
            <<F(0), True, False, S("x")>>}
      [] op \in {"highpass", "lowpass"} ->
           {<<I(1000), F(707), I(2)>>, <<F(80000), F(707), I(1)>>,
            <<I(0), F(707), I(2)>>, <<I(-1000), F(707), I(1)>>,
            <<I(1000), I(0), I(1)>>, <<I(1000), F(-707), I(2)>>,
            <<I(1000), F(707), I(3)>>}
      [] op = "loudness" ->
           {<<F(-10000), F(65000)>>,
            <<None, F(65000)>>, <<F(-10000), None>>,
            <<F(-10000), I(80)>>, <<F(-10000), I(40)>>}
      [] op = "norm" -> {<<F(-3000)>>, <<None>>}
      [] op = "overdrive" ->
           {<<F(20000), F(20000)>>, <<None, F(20000)>>, <<F(20000), S("x")>>}
      [] op = "pad" ->
           {<<I(1), F(500)>>, <<I(-1), F(500)>>, <<None, F(500)>>, <<I(1), F(-500)>>}
      [] op = "pitch" ->
           {<<I(-5), False>>, <<F(500), True>>, <<I(13), False>>, <<F(-12500), True>>,
            <<None, False>>, <<I(-5), I(1)>>, <<I(13), None>>}
      [] op = "rate" ->
           {<<I(8000), S("h")>>, <<F(44100000), S("v")>>,
            <<I(0), S("h")>>, <<F(-8000000), S("h")>>, <<S("x"), S("h")>>,
            <<I(8000), S("x")>>}
      [] op = "reverb" ->
           {<<I(50), I(50), I(100), I(100), I(0), I(0), False>>,
            <<F(25500), I(0), I(100), F(50000), F(20000), I(-3), True>>,
            <<I(101), I(50), I(100), I(100), I(0), I(0), False>>,
            <<I(50), I(-1), I(100), I(100), I(0), I(0), False>>,
            <<I(50), I(50), None, I(100), I(0), I(0), False>>,
            <<I(50), I(50), I(100), F(100500), I(0), I(0), False>>,
            <<I(50), I(50), I(100), I(100), I(-1), I(0), False>>,
            <<I(50), I(50), I(100), I(100), I(0), S("x"), False>>,
            <<I(50), I(50), I(100), I(100), I(0), I(0), I(0)>>}
      [] op = "silence" ->
           {<<I(0), F(100), F(100), False>>,
            <<I(1), F(100), F(100), False>>,
            <<I(-1), F(100), F(100), False>>,
            <<I(-1), I(5), I(1), True>>,
            <<I(2), F(100), F(100), False>>,
            <<I(0), I(-1), F(100), False>>,
            <<I(0), None, F(100), False>>,
            <<I(0), I(100), F(100), False>>,
            <<I(0), F(100), I(0), False>>,
            <<I(1), F(100), F(-100), False>>,
            <<I(0), F(100), F(100), I(1)>>}
      [] op = "tempo" ->
           {<<F(1500), None, False>>, <<I(2), S("m"), True>>,
            <<F(2500), None, False>>, <<F(250), S("s"), False>>,
            <<I(0), None, False>>, <<F(-1500), None, False>>, <<S("x"), None, False>>,
            <<F(1500), S("x"), False>>, <<F(1500), None, I(1)>>,
            <<F(2500), S("x"), False>>, <<I(3), None, None>>}
      [] op = "treble" ->
           {<<F(2500), F(3000000), F(500)>>,
            <<S("x"), F(3000000), F(500)>>,
            <<F(2500), I(0), F(500)>>, <<F(2500), I(-3000), F(500)>>,
            <<F(2500), F(3000000), F(0)>>, <<F(2500), F(3000000), I(2)>>}
      [] op = "tremolo" ->
           {<<F(6000), F(40000)>>,
            <<I(0), F(40000)>>, <<F(-6000), F(40000)>>,
            <<F(6000), I(0)>>, <<F(6000), I(101)>>}
      [] op = "trim" ->
           {<<F(2000), F(5000)>>, <<I(0), I(3)>>, <<I(1), F(2500)>>,
            <<I(5), I(5)>>, <<F(5000), F(2000)>>,
            <<I(-1), I(5)>>, <<None, I(5)>>, <<I(1), I(-5)>>, <<I(1), S("x")>>}
      [] op = "upsample" -> {<<I(3)>>, <<I(0)>>, <<I(-3)>>, <<F(3000)>>}
      [] op = "vad" ->
           {<<I(1), True, F(7000), F(250), F(1000), F(250), F(0)>>,
            <<I(-1), True, F(7000), F(250), F(1000), F(250), F(0)>>,
            <<I(-1), False, I(-2), I(0), I(1), I(0), F(500)>>,
            <<I(0), True, F(7000), F(250), F(1000), F(250), F(0)>>,
            <<I(1), I(1), F(7000), F(250), F(1000), F(250), F(0)>>,
            <<I(1), True, None, F(250), F(1000), F(250), F(0)>>,
            <<I(1), True, F(7000), F(-250), F(1000), F(250), F(0)>>,
            <<I(1), True, F(7000), F(250), I(-1), F(250), F(0)>>,
            <<I(1), True, F(7000), F(250), F(1000), F(-250), F(0)>>,
            <<I(1), True, F(7000), F(250), F(1000), F(250), I(-1)>>}

-----------------------------------------------------------------------------
(* The state machine *)

\* The object as __init__ leaves it: four empty lists, then self.set_globals().
NewTransformer ==
    set_globals([globals |-> <<>>, input_format |-> <<>>, output_format |-> <<>>,
                 effects |-> <<>>, effects_log |-> <<>>],
                False, False, False, False, I(2)).self

NoBuild == [valid |-> FALSE, self |-> NewTransformer, args |-> <<>>, handed |-> <<>>]

Init ==
    /\ globals = NewTransformer.globals
    /\ input_format = NewTransformer.input_format
    /\ output_format = NewTransformer.output_format
    /\ effects = NewTransformer.effects
    /\ effects_log = NewTransformer.effects_log
    /\ last = [op |-> "__init__", args |-> <<>>, pre |-> NewTransformer,
               raised |-> "none", ret |-> "", logs |-> <<>>, returned |-> <<>>,
               trace |-> <<>>, handed |-> <<>>, msg |-> ""]
    /\ built = NoBuild
    /\ n_returned = 0
    /\ n_fade_noop = 0
    /\ ncalls = 0
    /\ tf_default = compand_tf_points
    /\ tf_caller = L(<<T(<<I(-20), I(-20)>>), T(<<I(-70), I(-70)>>), T(<<I(0), I(-5)>>)>>)
    /\ threads = [t \in {1, 2} |->
                    [pc |-> "idle", name |-> "", effect_args |-> <<>>,
                     calls |-> 0, locked |-> TRUE]]

\* How many of the methods that returned are effect methods.
EffectReturns(returned) ==
    Cardinality({i \in 1..Len(returned) : returned[i] \in EffectMethods})

\* A fade call that asks for neither a fade-in nor a fade-out.
FadeNoop(op, a, raised) ==
    op = "fade" /\ raised = "none" /\ Milli(a[1]) <= 0 /\ Milli(a[2]) <= 0

\* What the call self.<op>(*a) with outcome r leaves: the object and the record
\* of the call.
Commit(op, a, r) ==
        /\ globals' = r.self.globals
        /\ input_format' = r.self.input_format
        /\ output_format' = r.self.output_format
        /\ effects' = r.self.effects
        /\ effects_log' = r.self.effects_log
        /\ last' = [op |-> op, args |-> a, pre |-> Self, raised |-> r.raised,
                    ret |-> r.ret, logs |-> r.logs, returned |-> r.returned,
                    trace |-> r.trace, handed |-> r.handed, msg |-> r.msg]
        /\ built' = IF last.op = "build" /\ Len(last.trace) = 3
                    THEN [valid |-> TRUE, self |-> last.pre, args |-> last.args,
                          handed |-> last.handed]
                    ELSE built
        /\ n_returned' = n_returned + EffectReturns(r.returned)
        /\ n_fade_noop' = n_fade_noop + (IF FadeNoop(op, a, r.raised) THEN 1 ELSE 0)
        /\ ncalls' = ncalls + 1

\* The call self.<op>(*a) by a single caller, with arguments of its own.
Do(op, a) ==
    \E r \in {Invoke(op, Self, a)} :
        Commit(op, a, r) /\ UNCHANGED <<tf_default, tf_caller, threads>>

Call_set_globals == ncalls < MaxCalls /\ \E a \in Inputs("set_globals") : Do("set_globals", a)
Call_set_input_format == ncalls < MaxCalls /\ \E a \in Inputs("set_input_format") : Do("set_input_format", a)
Call_set_output_format == ncalls < MaxCalls /\ \E a \in Inputs("set_output_format") : Do("set_output_format", a)
Call_build == ncalls < MaxCalls /\ \E a \in Inputs("build") : Do("build", a)
Call_preview == ncalls < MaxCalls /\ \E a \in Inputs("preview") : Do("preview", a)
Call_allpass == ncalls < MaxCalls /\ \E a \in Inputs("allpass") : Do("allpass", a)
Call_bandpass == ncalls < MaxCalls /\ \E a \in Inputs("bandpass") : Do("bandpass", a)
Call_bandreject == ncalls < MaxCalls /\ \E a \in Inputs("bandreject") : Do("bandreject", a)
Call_bass == ncalls < MaxCalls /\ \E a \in Inputs("bass") : Do("bass", a)
Call_bend == ncalls < MaxCalls /\ \E a \in Inputs("bend") : Do("bend", a)
Call_biquad == ncalls < MaxCalls /\ \E a \in Inputs("biquad") : Do("biquad", a)
Call_channels == ncalls < MaxCalls /\ \E a \in Inputs("channels") : Do("channels", a)
Call_chorus == ncalls < MaxCalls /\ \E a \in Inputs("chorus") : Do("chorus", a)
Call_compand == ncalls < MaxCalls /\ \E a \in Inputs("compand") : Do("compand", a)
Call_contrast == ncalls < MaxCalls /\ \E a \in Inputs("contrast") : Do("contrast", a)
Call_convert == ncalls < MaxCalls /\ \E a \in Inputs("convert") : Do("convert", a)
Call_dcshift == ncalls < MaxCalls /\ \E a \in Inputs("dcshift") : Do("dcshift", a)
Call_deemph == ncalls < MaxCalls /\ \E a \in Inputs("deemph") : Do("deemph", a)
Call_delay == ncalls < MaxCalls /\ \E a \in Inputs("delay") : Do("delay", a)
Call_downsample == ncalls < MaxCalls /\ \E a \in Inputs("downsample") : Do("downsample", a)
Call_earwax == ncalls < MaxCalls /\ \E a \in Inputs("earwax") : Do("earwax", a)
Call_echo == ncalls < MaxCalls /\ \E a \in Inputs("echo") : Do("echo", a)
Call_echos == ncalls < MaxCalls /\ \E a \in Inputs("echos") : Do("echos", a)
Call_equalizer == ncalls < MaxCalls /\ \E a \in Inputs("equalizer") : Do("equalizer", a)
Call_fade == ncalls < MaxCalls /\ \E a \in Inputs("fade") : Do("fade", a)
Call_fir == ncalls < MaxCalls /\ \E a \in Inputs("fir") : Do("fir", a)
Call_flanger == ncalls < MaxCalls /\ \E a \in Inputs("flanger") : Do("flanger", a)
Call_gain == ncalls < MaxCalls /\ \E a \in Inputs("gain") : Do("gain", a)
Call_highpass == ncalls < MaxCalls /\ \E a \in Inputs("highpass") : Do("highpass", a)
Call_lowpass == ncalls < MaxCalls /\ \E a \in Inputs("lowpass") : Do("lowpass", a)
Call_hilbert == ncalls < MaxCalls /\ \E a \in Inputs("hilbert") : Do("hilbert", a)
Call_loudness == ncalls < MaxCalls /\ \E a \in Inputs("loudness") : Do("loudness", a)
Call_mcompand == ncalls < MaxCalls /\ \E a \in Inputs("mcompand") : Do("mcompand", a)
Call_noisered == ncalls < MaxCalls /\ \E a \in Inputs("noisered") : Do("noisered", a)
Call_norm == ncalls < MaxCalls /\ \E a \in Inputs("norm") : Do("norm", a)
Call_oops == ncalls < MaxCalls /\ \E a \in Inputs("oops") : Do("oops", a)
Call_overdrive == ncalls < MaxCalls /\ \E a \in Inputs("overdrive") : Do("overdrive", a)
Call_pad == ncalls < MaxCalls /\ \E a \in Inputs("pad") : Do("pad", a)
Call_phaser == ncalls < MaxCalls /\ \E a \in Inputs("phaser") : Do("phaser", a)
Call_pitch == ncalls < MaxCalls /\ \E a \in Inputs("pitch") : Do("pitch", a)
Call_rate == ncalls < MaxCalls /\ \E a \in Inputs("rate") : Do("rate", a)
Call_remix == ncalls < MaxCalls /\ \E a \in Inputs("remix") : Do("remix", a)
Call_repeat == ncalls < MaxCalls /\ \E a \in Inputs("repeat") : Do("repeat", a)
Call_reverb == ncalls < MaxCalls /\ \E a \in Inputs("reverb") : Do("reverb", a)
Call_reverse == ncalls < MaxCalls /\ \E a \in Inputs("reverse") : Do("reverse", a)
Call_silence == ncalls < MaxCalls /\ \E a \in Inputs("silence") : Do("silence", a)
Call_sinc == ncalls < MaxCalls /\ \E a \in Inputs("sinc") : Do("sinc", a)
Call_speed == ncalls < MaxCalls /\ \E a \in Inputs("speed") : Do("speed", a)
Call_splice == ncalls < MaxCalls /\ \E a \in Inputs("splice") : Do("splice", a)
Call_swap == ncalls < MaxCalls /\ \E a \in Inputs("swap") : Do("swap", a)
Call_stretch == ncalls < MaxCalls /\ \E a \in Inputs("stretch") : Do("stretch", a)
Call_tempo == ncalls < MaxCalls /\ \E a \in Inputs("tempo") : Do("tempo", a)
Call_treble == ncalls < MaxCalls /\ \E a \in Inputs("treble") : Do("treble", a)
Call_tremolo == ncalls < MaxCalls /\ \E a \in Inputs("tremolo") : Do("tremolo", a)
Call_trim == ncalls < MaxCalls /\ \E a \in Inputs("trim") : Do("trim", a)
Call_upsample == ncalls < MaxCalls /\ \E a \in Inputs("upsample") : Do("upsample", a)
Call_vad == ncalls < MaxCalls /\ \E a \in Inputs("vad") : Do("vad", a)

Next ==
    \/ Call_set_globals
    \/ Call_set_input_format
    \/ Call_set_output_format
    \/ Call_build
    \/ Call_preview
    \/ Call_allpass
    \/ Call_bandpass
    \/ Call_bandreject
    \/ Call_bass
    \/ Call_bend
    \/ Call_biquad
    \/ Call_channels
    \/ Call_chorus
    \/ Call_compand
    \/ Call_contrast
    \/ Call_convert
    \/ Call_dcshift
    \/ Call_deemph
    \/ Call_delay
    \/ Call_downsample
    \/ Call_earwax
    \/ Call_echo
    \/ Call_echos
    \/ Call_equalizer
    \/ Call_fade
    \/ Call_fir
    \/ Call_flanger
    \/ Call_gain
    \/ Call_highpass
    \/ Call_lowpass
    \/ Call_hilbert
    \/ Call_loudness
    \/ Call_mcompand
    \/ Call_noisered
    \/ Call_norm
    \/ Call_oops
    \/ Call_overdrive
    \/ Call_pad
    \/ Call_phaser
    \/ Call_pitch
    \/ Call_rate
    \/ Call_remix
    \/ Call_repeat
    \/ Call_reverb
    \/ Call_reverse
    \/ Call_silence
    \/ Call_sinc
    \/ Call_speed
    \/ Call_splice
    \/ Call_swap
    \/ Call_stretch
    \/ Call_tempo
    \/ Call_treble
    \/ Call_tremolo
    \/ Call_trim
    \/ Call_upsample
    \/ Call_vad

Spec == Init /\ [][Next]_vars

-----------------------------------------------------------------------------
(* Longer chains: a Transformer configured by a few calls, one per section of
   the command line, and then built or previewed. *)

ChainInputs(op) ==
    CASE op = "set_globals" -> {<<True, True, False, True, I(3)>>}
      [] op = "set_input_format" -> {<<S("raw"), I(8000), I(16), None, None, True>>}
      [] op = "set_output_format" -> {<<None, None, I(8), None, None, S("note"), False>>}
      [] op = "convert" -> {<<I(8000), I(2), I(16)>>}
      [] op = "fade" -> {<<F(2000), F(3000), S("h")>>}
      [] op = "reverse" -> {<<>>}
      [] op \in {"build", "preview"} -> Inputs(op)

Chain_set_globals == ncalls < MaxChain /\ \E a \in ChainInputs("set_globals") : Do("set_globals", a)
Chain_set_input_format == ncalls < MaxChain /\ \E a \in ChainInputs("set_input_format") : Do("set_input_format", a)
Chain_set_output_format == ncalls < MaxChain /\ \E a \in ChainInputs("set_output_format") : Do("set_output_format", a)
Chain_convert == ncalls < MaxChain /\ \E a \in ChainInputs("convert") : Do("convert", a)
Chain_fade == ncalls < MaxChain /\ \E a \in ChainInputs("fade") : Do("fade", a)
Chain_reverse == ncalls < MaxChain /\ \E a \in ChainInputs("reverse") : Do("reverse", a)
Chain_build == ncalls < MaxChain /\ \E a \in ChainInputs("build") : Do("build", a)
Chain_preview == ncalls < MaxChain /\ \E a \in ChainInputs("preview") : Do("preview", a)

NextChain ==
    \/ Chain_set_globals
    \/ Chain_set_input_format
    \/ Chain_set_output_format
    \/ Chain_convert
    \/ Chain_fade
    \/ Chain_reverse
    \/ Chain_build
    \/ Chain_preview

SpecChain == Init /\ [][NextChain]_vars

-----------------------------------------------------------------------------
(* compand and the list objects it is given: the default of tf_points is one
   list object, made when the method is defined and shared by every call that
   leaves tf_points out, on whichever Transformer; a caller's list is passed
   by reference. *)

\* The number of calls one behaviour of SpecShared makes.
MaxShared == 4

\* The list object with the slip of sorting it where it is (tf_points.sort).
tf_points_sorted_in_place(tf_points) == L(SortedByX(tf_points.l))

\* What the list object passed as tf_points holds when compand has returned:
\* sorted() makes a new list and the local name alone is bound to it, and the
\* loop over it only reads.
tf_points_object(tf_points) == tf_points

\* self.compand(): every argument left to its default.
Shared_default ==
    /\ ncalls < MaxShared
    /\ \E r \in {compand(Self, F(300), F(800), F(6000), tf_default)} :
          /\ Commit("compand", <<F(300), F(800), F(6000), tf_default>>, r)
          /\ tf_default' = IF r.raised = "none" THEN tf_points_object(tf_default)
                           ELSE tf_default
    /\ UNCHANGED <<tf_caller, threads>>

\* self.compand(attack_time, decay_time, soft_knee_db, tf_points) with the
\* caller's list as tf_points.
Shared_caller ==
    /\ ncalls < MaxShared
    /\ \E a \in {<<F(300), F(800), F(6000)>>, <<F(300), F(800), None>>,
                 <<I(1), F(500), F(6000)>>, <<I(0), F(800), F(6000)>>} :
          \E r \in {compand(Self, a[1], a[2], a[3], tf_caller)} :
             /\ Commit("compand", a \o <<tf_caller>>, r)
             /\ tf_caller' = IF r.raised = "none" THEN tf_points_object(tf_caller)
                             ELSE tf_caller
    /\ UNCHANGED <<tf_default, threads>>

\* Transformer(): the caller goes on with a new object.
Shared_new ==
    /\ ncalls < MaxShared
    /\ globals' = NewTransformer.globals
    /\ input_format' = NewTransformer.input_format
    /\ output_format' = NewTransformer.output_format
    /\ effects' = NewTransformer.effects
    /\ effects_log' = NewTransformer.effects_log
    /\ last' = [op |-> "__init__", args |-> <<>>, pre |-> NewTransformer,
                raised |-> "none", ret |-> "", logs |-> <<>>, returned |-> <<>>,
                trace |-> <<>>, handed |-> <<>>, msg |-> ""]
    /\ ncalls' = ncalls + 1
    /\ UNCHANGED <<built, n_returned, n_fade_noop, tf_default, tf_caller, threads>>

NextShared ==
    \/ Shared_default
    \/ Shared_caller
    \/ Shared_new

SpecShared == Init /\ [][NextShared]_vars

-----------------------------------------------------------------------------
(* Two callers of one Transformer. An effect method checks its arguments and
   builds effect_args from them alone, then runs self.effects.extend(effect_args),
   then self.effects_log.append(name) and returns; the object has no lock, so
   another caller may run between any two of these statements unless the
   callers take a lock of their own around each call. *)

\* The number of calls each caller makes in one behaviour of SpecThreads.
MaxThreadCalls == 1

\* The calls a caller may make.
ThreadInputs ==
    {<<"allpass", <<I(500), F(2000)>>>>,
     <<"allpass", <<I(0), F(2000)>>>>,
     <<"contrast", <<I(75)>>>>,
     <<"norm", <<F(-3000)>>>>,
     <<"reverse", <<>>>>,
     <<"vad", <<I(-1), True, F(7000), F(250), F(1000), F(250), F(0)>>>>}

\* Caller t enters a method: the checks and effect_args, which read the
\* arguments only. With `lock` the caller has taken the callers' lock first,
\* which is free when no other caller is inside a call.
Thread_start(t) ==
    /\ threads[t].pc = "idle" /\ threads[t].calls < MaxThreadCalls
    /\ \E c \in ThreadInputs, lock \in BOOLEAN :
          /\ lock => \A u \in DOMAIN threads \ {t} : threads[u].pc = "idle"
          /\ \E r \in {Invoke(c[1], NewTransformer, c[2])} :
                threads' = [threads EXCEPT ![t] =
                    [pc |-> IF r.raised = "none" THEN "extend" ELSE "idle",
                     name |-> IF r.raised = "none" THEN r.self.effects_log[1] ELSE "",
                     effect_args |-> r.self.effects,
                     calls |-> @.calls + 1,
                     locked |-> @.locked /\ lock]]
    /\ UNCHANGED <<globals, input_format, output_format, effects, effects_log, last,
                   built, n_returned, n_fade_noop, ncalls, tf_default, tf_caller>>

\* Thread_extend with the slip of putting the group in front of the list.
Thread_extend_in_front(t) ==
    /\ threads[t].pc = "extend"
    /\ effects' = threads[t].effect_args \o effects
    /\ threads' = [threads EXCEPT ![t].pc = "append"]
    /\ UNCHANGED <<globals, input_format, output_format, effects_log, last,
                   built, n_returned, n_fade_noop, ncalls, tf_default, tf_caller>>

\* self.effects.extend(effect_args)
Thread_extend(t) ==
    /\ threads[t].pc = "extend"
    /\ effects' = effects \o threads[t].effect_args
    /\ threads' = [threads EXCEPT ![t].pc = "append"]
    /\ UNCHANGED <<globals, input_format, output_format, effects_log, last,
                   built, n_returned, n_fade_noop, ncalls, tf_default, tf_caller>>

\* self.effects_log.append(name); return self
Thread_append(t) ==
    /\ threads[t].pc = "append"
    /\ effects_log' = Append(effects_log, threads[t].name)
    /\ threads' = [threads EXCEPT ![t].pc = "idle"]
    /\ UNCHANGED <<globals, input_format, output_format, effects, last,
                   built, n_returned, n_fade_noop, ncalls, tf_default, tf_caller>>

NextThreads ==
    \E t \in DOMAIN threads :
        \/ Thread_start(t)
        \/ Thread_extend(t)
        \/ Thread_append(t)

SpecThreads == Init /\ [][NextThreads]_vars

-----------------------------------------------------------------------------
(* Properties *)

IsPrefix(s, q) == Len(s) <= Len(q) /\ SubSeq(q, 1, Len(s)) = s

\* Whether the text `sub` occurs in the text `text`.
Contains(text, sub) ==
    \E i \in 1..(Len(text) - Len(sub) + 1) : SubSeq(text, i, i + Len(sub) - 1) = sub

\* The latest call was a build whose paths both validators accepted.
PathsAccepted == last.op = "build" /\ last.args[3].n = 1 /\ last.args[4].n = 1

\* C1: a builder call that raises leaves globals, input_format, output_format,
\* effects and effects_log as they were before the call.
C1_FailedCallCommitsNothing ==
    (last.op \in BuilderMethods /\ last.raised # "none") => Self = last.pre

\* C1, for every builder method but convert: the failed call commits nothing.
C1_AllButConvert ==
    (last.op \in BuilderMethods \ {"convert"} /\ last.raised # "none") => Self = last.pre

\* C2, as stated: len(effects_log) is the number of effect-method invocations
\* that returned without raising.
C2_LogCountsReturns == Len(effects_log) = n_returned

\* C2, amended: len(effects_log) is the number of effect-method invocations that
\* returned without raising, less the fade calls with both lengths zero.
C2_LogCountsReturnsButFadeNoop == Len(effects_log) = n_returned - n_fade_noop

\* A fade with both lengths zero and an effect of several tokens have returned.
C2_Witness ==
    /\ n_fade_noop = 1
    /\ n_returned = 2
    /\ Len(effects_log) = 1
    /\ Len(effects) > 1

\* C3: when both paths are accepted, build hands the engine exactly globals,
\* input_format, the input path, output_format, the output path and effects,
\* in that order.
C3_BuildOrder ==
    PathsAccepted =>
        /\ last.trace[Len(last.trace)] = "sox"
        /\ last.handed =
             last.pre.globals \o last.pre.input_format \o <<last.args[1].s>>
             \o last.pre.output_format \o <<last.args[2].s>> \o last.pre.effects

\* A build of a Transformer with tokens in every section.
C3_Witness ==
    /\ PathsAccepted
    /\ globals # <<>> /\ input_format # <<>> /\ output_format # <<>> /\ effects # <<>>
    /\ Len(last.handed) =
         Len(globals) + Len(input_format) + Len(output_format) + Len(effects) + 2

\* C4: build and preview leave the five attributes unchanged, whether they
\* return or raise; and a build of an object equal to the one an earlier build
\* saw, with the same paths, hands the engine the same tokens.
C4_BuildPreviewReadOnly ==
    /\ last.op \in {"build", "preview"} => Self = last.pre
    /\ (PathsAccepted /\ built.valid /\ built.self = last.pre
        /\ built.args[1] = last.args[1] /\ built.args[2] = last.args[2])
       => last.handed = built.handed

\* A second build of the same configured object, this one failing in the engine.
C4_Witness ==
    /\ PathsAccepted /\ last.raised = "SoxError"
    /\ built.valid /\ built.self = last.pre
    /\ built.args[1] = last.args[1] /\ built.args[2] = last.args[2]
    /\ effects # <<>> /\ output_format # <<>>

\* C5: build returns True exactly when the engine ran and reported status 0;
\* on any other status it raises the engine error, returns nothing, and the
\* message holds the captured standard output and standard error.
C5_BuildStatus ==
    last.op = "build" =>
        /\ last.ret = "True" <=> (PathsAccepted /\ last.args[5].n = 0)
        /\ (PathsAccepted /\ last.args[5].n # 0) =>
              /\ last.raised = "SoxError"
              /\ last.ret = ""
              /\ Contains(last.msg, "Stdout: " \o Fmt(last.args[6]))
              /\ Contains(last.msg, "Stderr: " \o Fmt(last.args[7]))

\* The engine failed with a negative status and text on standard output.
C5_Witness ==
    /\ PathsAccepted /\ last.args[5].n < 0
    /\ last.raised = "SoxError"
    /\ last.args[6].t = "str"

\* C6: build calls the input-path validator, then the output-path validator,
\* then the engine, and stops at the first validator that fails: the engine is
\* reached only when both have passed.
C6_ValidateBeforeEngine ==
    last.op = "build" =>
        /\ last.trace =
             IF last.args[3].n = 0 THEN <<"validate_input_file">>
             ELSE IF last.args[4].n = 0
             THEN <<"validate_input_file", "validate_output_file">>
             ELSE <<"validate_input_file", "validate_output_file", "sox">>
        /\ ~PathsAccepted => (last.handed = <<>> /\ last.raised = "PathError")

\* The input path passes, the output path does not: the engine is not called.
C6_Witness ==
    /\ last.op = "build" /\ last.args[3].n = 1 /\ last.args[4].n = 0
    /\ last.trace = <<"validate_input_file", "validate_output_file">>
    /\ last.raised = "PathError"
    /\ effects # <<>>

\* C7: preview hands the player exactly 'play', '--no-show-progress', globals,
\* input_format, the input path and effects: no output format, no output path.
C7_PreviewOrder ==
    last.op = "preview" =>
        /\ last.trace = <<"play">>
        /\ last.handed =
             <<"play", "--no-show-progress">> \o last.pre.globals
             \o last.pre.input_format \o <<last.args[1].s>> \o last.pre.effects

\* A preview of an object whose output format is not empty.
C7_Witness ==
    /\ last.op = "preview"
    /\ input_format # <<>> /\ output_format # <<>> /\ effects # <<>>
    /\ Len(last.handed) = Len(globals) + Len(input_format) + Len(effects) + 3

\* C8: every call leaves the old effects and effects_log as a prefix of the new
\* ones, and an effect call that returns appends its own tokens, those it gives
\* a new Transformer, as one block at the end.
C8_AppendOnly ==
    /\ IsPrefix(last.pre.effects, effects)
    /\ IsPrefix(last.pre.effects_log, effects_log)
    /\ (last.op \in EffectMethods /\ last.raised = "none") =>
          effects = last.pre.effects
                    \o Invoke(last.op, NewTransformer, last.args).self.effects

\* A second effect call of several tokens after a first one.
C8_Witness ==
    /\ last.op \in EffectMethods
    /\ Len(effects_log) = 2
    /\ Len(last.pre.effects) >= 2
    /\ Len(effects) >= Len(last.pre.effects) + 2
    /\ last.pre.effects_log[1] # effects_log[2]

\* The attribute a setter writes.
Written(self, op) ==
    CASE op = "set_globals" -> self.globals
      [] op = "set_input_format" -> self.input_format
      [] op = "set_output_format" -> self.output_format

\* C9: after a setter returns, the list it writes is the list a new Transformer
\* holds after the same call, whatever the list held before; and the same call
\* made once more leaves the object as it is.
C9_SettersReplace ==
    (last.op \in Setters /\ last.raised = "none") =>
        /\ Written(Self, last.op) =
             Written(Invoke(last.op, NewTransformer, last.args).self, last.op)
        /\ Invoke(last.op, Self, last.args).self = Self

\* set_output_format called on an output format that convert has written.
C9_Witness ==
    /\ last.op = "set_output_format" /\ last.raised = "none"
    /\ last.pre.output_format = <<"-b", "16">>
    /\ output_format = <<"-b", "8", "--comment", "note">>

\* The parameters documented as positive numbers: the method and the place of
\* the parameter among its arguments.
PositiveParams ==
    {<<m, i>> : m \in {"allpass", "bandpass", "bandreject", "equalizer", "highpass",
                       "lowpass"}, i \in {1, 2}}
    \cup {<<"bass", 2>>, <<"treble", 2>>, <<"channels", 1>>, <<"convert", 2>>,
          <<"chorus", 3>>, <<"compand", 1>>, <<"compand", 2>>, <<"downsample", 1>>,
          <<"upsample", 1>>, <<"tempo", 1>>, <<"rate", 1>>, <<"convert", 1>>,
          <<"silence", 3>>, <<"tremolo", 1>>}

\* The latest call gave a number <= 0 for one of the positive parameters.
NotPositive ==
    \E p \in PositiveParams :
        /\ last.op = p[1]
        /\ last.args[p[2]].t \in {"int", "float"}
        /\ Milli(last.args[p[2]]) <= 0

\* C10: an effect call with 0 or a negative number for a parameter documented
\* as positive raises the validation error and leaves effects and effects_log
\* unchanged.
C10_PositiveParams ==
    NotPositive =>
        /\ last.raised = "ValueError"
        /\ effects = last.pre.effects
        /\ effects_log = last.pre.effects_log

\* tempo is called with a factor that is not positive on a Transformer that has
\* an effect; and the calls drawn give every positive parameter both 0 and a
\* negative number.
C10_Witness ==
    /\ last.op = "tempo" /\ NotPositive
    /\ effects # <<>>
    /\ \A p \in PositiveParams :
          /\ \E a \in Inputs(p[1]) : a[p[2]].t \in {"int", "float"} /\ Milli(a[p[2]]) = 0
          /\ \E a \in Inputs(p[1]) : a[p[2]].t \in {"int", "float"} /\ Milli(a[p[2]]) < 0

\* C11: every rejection of a parameter by a builder method is reported as one
\* and the same error kind, the validation error (ValueError), whichever check
\* rejects it; compand's checks of tf_points are among them.
C11_OneValidationError ==
    (last.op \in BuilderMethods \ Unimplemented /\ last.raised # "none")
        => last.raised = "ValueError"

\* C12: a call of any of the sixteen effects that are declared and not
\* implemented raises the unsupported-operation error, returns nothing, and
\* leaves the five attributes as they were.
C12_UnimplementedRaise ==
    last.op \in Unimplemented =>
        /\ last.raised = "NotImplementedError"
        /\ last.ret = ""
        /\ last.returned = <<>>
        /\ Self = last.pre

\* stretch is called on a Transformer that already has an effect and an output
\* format; the sixteen names are all there.
C12_Witness ==
    /\ last.op = "stretch" /\ last.raised = "NotImplementedError"
    /\ Cardinality(Unimplemented) = 16
    /\ (effects # <<>> \/ output_format # <<>> \/ input_format # <<>>)

\* The global tokens for the four switches and the verbosity n.
GlobalsOf(dither, guard, multithread, replay_gain, n) ==
    (IF ~dither THEN <<"-D">> ELSE <<>>)
    \o (IF guard THEN <<"-G">> ELSE <<>>)
    \o (IF multithread THEN <<"--multi-threaded">> ELSE <<>>)
    \o (IF replay_gain THEN <<"--replay-gain", "track">> ELSE <<>>)
    \o <<"-V" \o ToString(n)>>

\* C13: in every state globals is the disable-dither flag iff dither is false,
\* the clip-guard flag iff guard, the multithread flag iff multithread, the pair
\* '--replay-gain','track' iff replay_gain, and last one token '-V<n>' with n in
\* 0..4; a set_globals call that returns leaves the list of its own switches,
\* and no other call changes the list.
C13_GlobalsWellFormed ==
    /\ \E d, g, m, r \in BOOLEAN, n \in 0..4 : globals = GlobalsOf(d, g, m, r, n)
    /\ (last.op = "set_globals" /\ last.raised = "none") =>
          \E n \in 0..4 :
              globals = GlobalsOf(last.args[1].n = 1, last.args[2].n = 1,
                                  last.args[3].n = 1, last.args[4].n = 1, n)
    /\ ~(last.op = "set_globals" /\ last.raised = "none") => globals = last.pre.globals

\* The flag,value pair of a field that is present; nothing for an absent one.
Pair(flag, v) == IF v = None THEN <<>> ELSE <<flag, Fmt(v)>>

\* The pairs of the five fields a format setter was called with, in the order
\* type, rate, bits, channels, encoding.
FieldPairs(a) ==
    Pair("-t", a[1]) \o Pair("-r", a[2]) \o Pair("-b", a[3]) \o Pair("-c", a[4])
    \o Pair("-e", a[5])

\* C14: after a format setter returns, its list holds one flag,value pair for
\* each field that is present and nothing for an absent one, in the order type,
\* rate, bits, channels, encoding; then, for the input, '--ignore-length' iff
\* ignore_length, and for the output, iff comments is present, the pair of
\* '--add-comment' (append_comments true) or '--comment' and the comments.
C14_FormatTokens ==
    /\ (last.op = "set_input_format" /\ last.raised = "none") =>
          input_format =
              FieldPairs(last.args)
              \o (IF last.args[6] = True THEN <<"--ignore-length">> ELSE <<>>)
    /\ (last.op = "set_output_format" /\ last.raised = "none") =>
          output_format =
              FieldPairs(last.args)
              \o (IF last.args[6] = None THEN <<>>
                  ELSE <<IF last.args[7] = True THEN "--add-comment" ELSE "--comment",
                         last.args[6].s>>)

\* An output format of all five fields and an appended comment is set after an
\* input format of two fields only.
C14_Witness ==
    /\ last.op = "set_output_format" /\ last.raised = "none"
    /\ Len(output_format) = 12
    /\ output_format[11] = "--add-comment"
    /\ input_format = <<"-r", "8000", "-c", "1">>

\* C15: a convert call that returns appends its bit-depth pair and its
\* channel-count pair, when given, to output_format; without a samplerate it
\* leaves effects and effects_log as they were, and with one it appends the
\* tokens 'rate', '-h', samplerate and the one log entry 'rate'; no log entry is
\* ever named 'convert'.
C15_ConvertWrites ==
    /\ \A i \in 1..Len(effects_log) : effects_log[i] # "convert"
    /\ (last.op = "convert" /\ last.raised = "none") =>
          /\ output_format =
                last.pre.output_format \o Pair("-b", last.args[3]) \o Pair("-c", last.args[2])
          /\ effects =
                last.pre.effects
                \o (IF last.args[1] = None THEN <<>>
                    ELSE <<"rate", "-h", Fmt(last.args[1])>>)
          /\ effects_log =
                last.pre.effects_log
                \o (IF last.args[1] = None THEN <<>> ELSE <<"rate">>)

\* After one effect, a convert with a samplerate, a channel count and a bit
\* depth has returned.
C15_Witness ==
    /\ last.op = "convert" /\ last.raised = "none"
    /\ last.args[1] # None /\ last.args[2] # None /\ last.args[3] # None
    /\ Len(last.pre.effects_log) = 1
    /\ effects_log[2] = "rate"
    /\ Len(output_format) = 4

\* What the latest call appended to effects and to effects_log.
Appended == SubSeq(effects, Len(last.pre.effects) + 1, Len(effects))
Logged == SubSeq(effects_log, Len(last.pre.effects_log) + 1, Len(effects_log))

\* C16: a fade with a shape of q, h, t, l, p and two lengths >= 0 returns; it
\* appends fade,shape,in_len when only fade_in_len > 0, reverse,fade,shape,
\* out_len,reverse when only fade_out_len > 0, the first group and then the
\* second when both are > 0, each time with the one log entry 'fade'; and no
\* token and no log entry when both are 0.
C16_FadeGroups ==
    (/\ last.op = "fade"
     /\ last.args[3] \in {S("q"), S("h"), S("t"), S("l"), S("p")}
     /\ last.args[1].t \in {"int", "float"} /\ last.args[1].n >= 0
     /\ last.args[2].t \in {"int", "float"} /\ last.args[2].n >= 0)
    => LET shape == last.args[3].s
           fade_in == <<"fade", shape, Fmt(last.args[1])>>
           fade_out == <<"reverse", "fade", shape, Fmt(last.args[2]), "reverse">>
       IN /\ last.raised = "none" /\ last.ret = "self"
          /\ IsPrefix(last.pre.effects, effects)
          /\ IsPrefix(last.pre.effects_log, effects_log)
          /\ (last.args[1].n > 0 /\ last.args[2].n = 0) =>
                (Appended = fade_in /\ Logged = <<"fade">>)
          /\ (last.args[1].n = 0 /\ last.args[2].n > 0) =>
                (Appended = fade_out /\ Logged = <<"fade">>)
          /\ (last.args[1].n > 0 /\ last.args[2].n > 0) =>
                (Appended = fade_in \o fade_out /\ Logged = <<"fade">>)
          /\ (last.args[1].n = 0 /\ last.args[2].n = 0) =>
                (Appended = <<>> /\ Logged = <<>>)

\* A fade with both lengths > 0 has followed an effect; the calls drawn have
\* each of the other three cases too.
C16_Witness ==
    /\ last.op = "fade" /\ last.raised = "none"
    /\ last.args[1].n > 0 /\ last.args[2].n > 0
    /\ Len(last.pre.effects) > 0
    /\ Len(Appended) = 8
    /\ \E a \in Inputs("fade") : a[1] = F(2000) /\ a[2] = F(0) /\ a[3] = S("q")
    /\ \E a \in Inputs("fade") : a[1] = F(0) /\ a[2] = F(3000) /\ a[3] = S("q")
    /\ \E a \in Inputs("fade") : a[1] = F(0) /\ a[2] = F(0) /\ a[3] = S("q")

\* How many of the tokens are 'reverse'.
Reverses(tokens) == Cardinality({i \in 1..Len(tokens) : tokens[i] = "reverse"})

\* C17: a silence call that returns appends, for location 1, the leading-trim
\* group ('silence', '-l' when buffering, '1', duration, threshold) with no
\* 'reverse'; for location -1 that group with one 'reverse' right before it and
\* one right after it; for location 0 that group and then the trailing-trim
\* group ('-1', duration, threshold) with no 'reverse'.  One call appends 0 or 2
\* 'reverse' tokens.
C17_SilenceGroups ==
    (last.op = "silence" /\ last.raised = "none") =>
        LET duration == Fmt(last.args[3])
            threshold == Fmt(last.args[2]) \o "%"
            leading ==
                (IF last.args[4] = True THEN <<"silence", "-l">> ELSE <<"silence">>)
                \o <<"1", duration, threshold>>
            trailing == <<"-1", duration, threshold>>
        IN /\ last.args[1] = I(1) => Appended = leading
           /\ last.args[1] = I(-1) => Appended = <<"reverse">> \o leading \o <<"reverse">>
           /\ last.args[1] = I(0) => Appended = leading \o trailing
           /\ Reverses(Appended) = IF last.args[1] = I(-1) THEN 2 ELSE 0
           /\ Logged = <<"silence">>

\* A silence call for the end of the audio, with buffering, has followed an
\* effect; the calls drawn have locations 0 and 1 too.
C17_Witness ==
    /\ last.op = "silence" /\ last.raised = "none"
    /\ last.args[1] = I(-1) /\ last.args[4] = True
    /\ Len(last.pre.effects) > 0
    /\ Len(Appended) = 7
    /\ \E a \in Inputs("silence") : a[1] = I(0) /\ silence(NewTransformer, a[1], a[2], a[3], a[4]).raised = "none"
    /\ \E a \in Inputs("silence") : a[1] = I(1) /\ silence(NewTransformer, a[1], a[2], a[3], a[4]).raised = "none"

\* C18, as stated: the group a vad call with location -1 appends begins and
\* ends with 'reverse', whether normalize is true or false, so that every other
\* token of the call lies between the two; with location 1 the call appends no
\* 'reverse'.
C18_VadReverseOutermost ==
    (last.op = "vad" /\ last.raised = "none") =>
        /\ last.args[1] = I(-1) =>
              (Appended[1] = "reverse" /\ Appended[Len(Appended)] = "reverse")
        /\ last.args[1] = I(1) => Reverses(Appended) = 0

\* C18, amended: with location -1 the vad tokens ('vad' and its five option
\* pairs) stand between a 'reverse' right before 'vad' and a 'reverse' that is
\* the last token; the token 'norm', when normalize is true, is the first token
\* of the group, ahead of the first 'reverse'.  With location 1 the call
\* appends 'norm' (when normalize is true) and the vad tokens, and no 'reverse'.
C18_VadWrapped ==
    (last.op = "vad" /\ last.raised = "none") =>
        LET norm_tokens == IF last.args[2] = True THEN <<"norm">> ELSE <<>>
            vad_tokens ==
                <<"vad", "-t", Fmt(last.args[3]), "-T", Fmt(last.args[4]),
                  "-s", Fmt(last.args[5]), "-g", Fmt(last.args[6]),
                  "-p", Fmt(last.args[7])>>
        IN /\ last.args[1] = I(-1) =>
                Appended = norm_tokens \o <<"reverse">> \o vad_tokens \o <<"reverse">>
           /\ last.args[1] = I(1) =>
                (Appended = norm_tokens \o vad_tokens /\ Reverses(Appended) = 0)
           /\ Logged = <<"vad">>

\* A vad call for the end of the audio, normalizing, has followed an effect;
\* the calls drawn have one that does not normalize and one for the beginning.
C18_Witness ==
    /\ last.op = "vad" /\ last.raised = "none"
    /\ last.args[1] = I(-1) /\ last.args[2] = True
    /\ Len(last.pre.effects) > 0
    /\ Appended[1] = "norm" /\ Appended[2] = "reverse" /\ Appended[3] = "vad"
    /\ Len(Appended) = 14
    /\ \E a \in Inputs("vad") : a[1] = I(-1) /\ a[2] = False /\ Milli(a[4]) >= 0
    /\ \E a \in Inputs("vad") : a[1] = I(1) /\ a[2] = True /\ a[3] = F(7000) /\ a[4] = F(250)

\* C19: for two numbers, trim returns exactly when 0 <= start_time < end_time,
\* and then appends 'trim', start_time and the duration end_time - start_time;
\* when start_time >= end_time or one of the times is negative it raises the
\* validation error and appends nothing.
C19_TrimDuration ==
    (last.op = "trim" /\ last.args[1].t \in {"int", "float"}
                      /\ last.args[2].t \in {"int", "float"}) =>
        LET start_time == last.args[1]
            end_time == last.args[2]
            duration ==
                IF start_time.t = "int" /\ end_time.t = "int"
                THEN ToString(end_time.n - start_time.n)
                ELSE FloatStr(Milli(end_time) - Milli(start_time))
        IN IF 0 <= Milli(start_time) /\ Milli(start_time) < Milli(end_time)
           THEN /\ last.raised = "none"
                /\ Appended = <<"trim", Fmt(start_time), duration>>
                /\ Milli(start_time) > 0 => Appended[3] # Fmt(end_time)
                /\ Logged = <<"trim">>
           ELSE /\ last.raised = "ValueError"
                /\ Self = last.pre

\* trim(2.0, 5.0) has followed an effect and appended the duration 3.0; the
\* calls drawn have equal times, a start after the end, and a negative time.
C19_Witness ==
    /\ last.op = "trim" /\ last.args = <<F(2000), F(5000)>>
    /\ Len(last.pre.effects) > 0
    /\ Appended = <<"trim", "2.0", "3.0">>
    /\ <<I(5), I(5)>> \in Inputs("trim")
    /\ <<F(5000), F(2000)>> \in Inputs("trim")
    /\ <<I(-1), I(5)>> \in Inputs("trim")
    /\ <<I(1), I(-5)>> \in Inputs("trim")

\* The points of a list, as a set.
Points(pts) == {pts[i] : i \in 1..Len(pts)}

\* Two of the points, each a pair of numbers, have the same x.
DuplicateX(tf_points) ==
    /\ tf_points.t = "list"
    /\ \A p \in Points(tf_points.l) :
          p.t = "tuple" /\ Len(p.l) = 2 /\ p.l[1].t \in {"int", "float"}
          /\ p.l[2].t \in {"int", "float"}
    /\ \E i, j \in 1..Len(tf_points.l) :
          i < j /\ Milli(tf_points.l[i].l[1]) = Milli(tf_points.l[j].l[1])

\* C20: a compand call that returns writes the transfer list as the points of
\* tf_points, each as x then y, in strictly ascending order of x, in whatever
\* order they were given: the points written are those given, each once.  A
\* tf_points with two points of the same x raises the validation error and
\* appends nothing.
C20_CompandSorted ==
    last.op = "compand" =>
        LET pts == last.args[4].l
            knee == IF last.args[3] = None THEN "" ELSE Fmt(last.args[3]) \o ":"
        IN /\ last.raised = "none" =>
                \E q \in [1..Len(pts) -> Points(pts)] :
                    /\ \A i, j \in 1..Len(pts) :
                          i < j => Milli(q[i].l[1]) < Milli(q[j].l[1])
                    /\ Points(q) = Points(pts)
                    /\ Len(Appended) = 3
                    /\ Appended[3] = knee \o Join(TransferList(q), ",")
           /\ DuplicateX(last.args[4]) =>
                (last.raised = "ValueError" /\ Self = last.pre)

\* compand has followed an effect with the points (-20,-20), (-70,-70), (0,-5)
\* and written them by ascending x; the calls drawn have one with a duplicate x.
C20_Witness ==
    /\ last.op = "compand" /\ last.raised = "none"
    /\ last.args[4] = L(<<T(<<I(-20), I(-20)>>), T(<<I(-70), I(-70)>>), T(<<I(0), I(-5)>>)>>)
    /\ Len(last.pre.effects) > 0
    /\ Appended[3] = "-70,-70,-20,-20,0,-5"
    /\ \E a \in Inputs("compand") : DuplicateX(a[4])

\* C22: a chorus call that returns with n_voices = n appends 3 + 5n tokens:
\* 'chorus', gain_in, gain_out, then for each voice 1..n in turn its delay,
\* decay, speed, depth and shape; each of the five lists was omitted or had n
\* elements.  A call that gives one of the lists with another length raises
\* the validation error and appends nothing.
C22_ChorusTokens ==
    last.op = "chorus" =>
        LET n == last.args[3].n
            lists == {k \in 4..8 : last.args[k].t = "list"}
        IN /\ last.raised = "none" =>
                /\ Len(Appended) = 3 + 5 * n
                /\ SubSeq(Appended, 1, 3) = <<"chorus", Fmt(last.args[1]), Fmt(last.args[2])>>
                /\ \A k \in 4..8 : last.args[k] = None \/ (k \in lists /\ Len(last.args[k].l) = n)
                /\ \A i \in 1..n, k \in lists :
                      Appended[3 + 5 * (i - 1) + (k - 3)] =
                          (IF k = 8 THEN "-" ELSE "") \o Fmt(last.args[k].l[i])
                /\ \A i \in 1..n : Appended[3 + 5 * i] \in {"-s", "-t"}
                /\ Logged = <<"chorus">>
           /\ (last.args[3].t = "int" /\ \E k \in lists : Len(last.args[k].l) # n) =>
                (last.raised = "ValueError" /\ Self = last.pre)

\* A chorus of two voices with all five lists given has followed an effect; the
\* calls drawn have a chorus with every list omitted and lists that are too
\* short and too long.
C22_Witness ==
    /\ last.op = "chorus" /\ last.raised = "none"
    /\ last.args[3] = I(2) /\ \A k \in 4..8 : last.args[k].t = "list"
    /\ Len(last.pre.effects) > 0
    /\ Len(Appended) = 13
    /\ \E a \in Inputs("chorus") : a[3] = I(1) /\ \A k \in 4..8 : a[k] = None
    /\ \E a \in Inputs("chorus") : a[3] = I(2) /\ a[4].t = "list" /\ Len(a[4].l) = 1
    /\ \E a \in Inputs("chorus") : a[3] = I(1) /\ a[5].t = "list" /\ Len(a[5].l) = 2

\* Whether the text ends with the character c.
EndsWith(text, c) == Len(text) > 0 /\ SubSeq(text, Len(text), Len(text)) = c

\* Where, among the tokens the latest call appended, its percentage-valued
\* parameters, its Q-factor and its slope are rendered.
PercentTokens ==
    CASE last.op = "reverb" ->
           LET first == IF last.args[7] = True THEN 3 ELSE 2 IN first..(first + 3)
      [] last.op = "silence" ->
           LET first == (IF last.args[1] = I(-1) THEN 1 ELSE 0)
                        + (IF last.args[4] = True THEN 2 ELSE 1)
           IN {first + 3} \cup (IF last.args[1] = I(0) THEN {first + 6} ELSE {})
      [] last.op = "tremolo" -> {3}
      [] OTHER -> {}
QFactorTokens ==
    CASE last.op \in {"allpass", "bandreject", "equalizer"} -> {3}
      [] last.op = "bandpass" -> {Len(Appended)}
      [] last.op \in {"highpass", "lowpass"} -> IF last.args[3] = I(2) THEN {4} ELSE {}
      [] OTHER -> {}
SlopeTokens == IF last.op \in {"bass", "treble"} THEN {4} ELSE {}

\* C23: in the tokens a call that returns has appended, each token of a
\* percentage-valued parameter (reverb's reverberance, high-frequency damping,
\* room scale and stereo depth, silence's threshold, tremolo's depth) ends with
\* '%', each token of a Q-factor ends with 'q' and each token of a slope ends
\* with 's'.
C23_Suffixes ==
    (last.op \in EffectMethods /\ last.raised = "none") =>
        /\ \A p \in PercentTokens : EndsWith(Appended[p], "%")
        /\ \A p \in QFactorTokens : EndsWith(Appended[p], "q")
        /\ \A p \in SlopeTokens : EndsWith(Appended[p], "s")

\* Whether the value is a number, and whether tf_points is a list compand
\* accepts.
Number(v) == v.t \in {"int", "float"}
AcceptedPoints(tf_points) ==
    /\ tf_points.t = "list" /\ Len(tf_points.l) > 0
    /\ \A p \in Points(tf_points.l) :
          p.t = "tuple" /\ Len(p.l) = 2 /\ Number(p.l[1]) /\ Number(p.l[2])
          /\ Milli(p.l[1]) <= 0 /\ Milli(p.l[2]) <= 0
    /\ ~DuplicateX(tf_points)

\* The latest call met one of the advisory conditions with every parameter
\* valid: a pitch shift outside [-12, 12], a positive tempo factor outside
\* [0.5, 2], or a compand attack_time greater than its decay_time.
Advisory ==
    \/ /\ last.op = "pitch" /\ Number(last.args[1]) /\ last.args[2].t = "bool"
       /\ (Milli(last.args[1]) < -12000 \/ Milli(last.args[1]) > 12000)
    \/ /\ last.op = "tempo" /\ Number(last.args[1]) /\ Milli(last.args[1]) > 0
       /\ last.args[2] \in {None, S("m"), S("s"), S("l")} /\ last.args[3].t = "bool"
       /\ (Milli(last.args[1]) < 500 \/ Milli(last.args[1]) > 2000)
    \/ /\ last.op = "compand" /\ Number(last.args[1]) /\ Number(last.args[2])
       /\ Milli(last.args[2]) > 0 /\ Milli(last.args[1]) > Milli(last.args[2])
       /\ (Number(last.args[3]) \/ last.args[3] = None)
       /\ AcceptedPoints(last.args[4])

\* C24: pitch with n_semitones outside [-12, 12], tempo with a positive factor
\* outside [0.5, 2] and compand with attack_time > decay_time, the other
\* parameters being valid, each give one warning, do not raise, and append the
\* tokens and the log entry of the call as for any other value.
C24_AdvisoryOnly ==
    Advisory =>
        /\ last.raised = "none" /\ last.ret = "self"
        /\ Len(last.logs) = 1 /\ SubSeq(last.logs[1], 1, 8) = "WARNING:"
        /\ Logged = <<last.op>>
        /\ last.op = "pitch" =>
              Appended = <<"pitch">> \o (IF last.args[2] = True THEN <<"-q">> ELSE <<>>)
                         \o <<Fmt(F(100 * Milli(last.args[1])))>>
        /\ last.op = "tempo" =>
              Appended = <<"tempo">> \o (IF last.args[3] = True THEN <<"-q">> ELSE <<>>)
                         \o (IF last.args[2] = None THEN <<>> ELSE <<"-" \o last.args[2].s>>)
                         \o <<Fmt(last.args[1])>>
        /\ last.op = "compand" =>
              /\ Len(Appended) = 3
              /\ Appended[1] = "compand"
              /\ Appended[2] = Fmt(last.args[1]) \o "," \o Fmt(last.args[2])

\* tempo with the factor 2.5 has followed an effect, with its warning; the
\* calls drawn have an extreme pitch shift, a factor under 0.5 and a compand
\* with attack_time > decay_time.
C24_Witness ==
    /\ Advisory /\ last.op = "tempo" /\ last.args[1] = F(2500)
    /\ last.logs = <<tempo_warning>>
    /\ Len(last.pre.effects) > 0
    /\ Appended = <<"tempo", "2.5">>
    /\ <<I(13), False>> \in Inputs("pitch")
    /\ <<F(250), S("s"), False>> \in Inputs("tempo")
    /\ <<I(1), F(500), F(6000), compand_tf_points>> \in Inputs("compand")

\* Logs other than the one given: the empty one, one of three entries, and the
\* given one with an entry more.
OtherLogs(log) == {<<>>, <<"reverse", "fade", "reverse">>, log \o <<"gain">>} \ {log}

\* C25: a Transformer that has the globals, input_format, output_format and
\* effects of the one build or preview was called on, and another effects_log,
\* gets from the same call the same tokens handed to the engine or the player,
\* the same collaborators called, and the same return value or error.
C25_LogNotRead ==
    last.op \in {"build", "preview"} =>
        \A log \in OtherLogs(last.pre.effects_log) :
            \E r \in {Invoke(last.op, [last.pre EXCEPT !.effects_log = log], last.args)} :
                /\ r.handed = last.handed
                /\ r.trace = last.trace
                /\ r.raised = last.raised
                /\ r.ret = last.ret
                /\ r.msg = last.msg

\* A build that the engine carried out, on a Transformer with effects, a log
\* and an output format.
C25_Witness ==
    /\ PathsAccepted /\ last.ret = "True"
    /\ Len(last.pre.effects_log) = 2 /\ Len(last.pre.effects) > 2
    /\ output_format # <<>>
    /\ Cardinality(OtherLogs(last.pre.effects_log)) = 3

\* C27: every builder method that returns (a setter, an implemented effect,
\* fade with both lengths zero too, or convert) returns the object it was
\* called on, the one whose state the call has changed.
C27_ReturnsSelf ==
    /\ (last.op \in BuilderMethods /\ last.raised = "none") => last.ret = "self"
    /\ (last.op \in BuilderMethods /\ last.ret = "self") =>
          (last.raised = "none" /\ last.op \notin Unimplemented)

\* A fade with both lengths zero has returned self, after a convert that did.
C27_Witness ==
    /\ last.op = "fade" /\ last.ret = "self"
    /\ Milli(last.args[1]) = 0 /\ Milli(last.args[2]) = 0
    /\ effects_log = <<"rate">>
    /\ last.pre.output_format # <<>>

\* C28: effects is made of one token group, not empty, for each entry of
\* effects_log, in the order of the calls: each call leaves both lists as they
\* were or adds one entry to the log and one or more tokens at the end of
\* effects.  So effects is empty exactly when effects_log is, and effects_log
\* is never the longer of the two.
C28_GroupPerEntry ==
    /\ (effects = <<>>) <=> (effects_log = <<>>)
    /\ Len(effects_log) <= Len(effects)
    /\ IsPrefix(last.pre.effects, effects)
    /\ IsPrefix(last.pre.effects_log, effects_log)
    /\ Len(Logged) <= 1
    /\ (Len(Logged) = 1) <=> (Len(Appended) >= 1)

\* A delay with no positions has appended its one token after a fade with both
\* lengths zero has appended none.
C28_Witness ==
    /\ last.op = "delay" /\ last.args = <<L(<<>>)>>
    /\ n_fade_noop = 1
    /\ effects = <<"delay">> /\ effects_log = <<"delay">>

\* How many '-b' flags the format holds.
BitsPairs(fmt) == Cardinality({i \in 1..Len(fmt) : fmt[i] = "-b"})

\* C29: a convert call that returns keeps what output_format held, the pairs a
\* set_output_format call wrote included, and adds at its end the '-b' pair and
\* then the '-c' pair it was given, so that each convert with a bitdepth leaves
\* one '-b' pair more; a set_output_format call that returns leaves only its
\* own pairs, whatever convert calls came before.
C29_ConvertAccumulates ==
    /\ (last.op = "convert" /\ last.raised = "none") =>
          /\ IsPrefix(last.pre.output_format, output_format)
          /\ SubSeq(output_format, Len(last.pre.output_format) + 1, Len(output_format)) =
                (IF last.args[3] = None THEN <<>> ELSE <<"-b", Fmt(last.args[3])>>)
                \o (IF last.args[2] = None THEN <<>> ELSE <<"-c", Fmt(last.args[2])>>)
          /\ BitsPairs(output_format) =
                BitsPairs(last.pre.output_format) + (IF last.args[3] = None THEN 0 ELSE 1)
    /\ (last.op = "set_output_format" /\ last.raised = "none") =>
          /\ BitsPairs(output_format) = (IF last.args[3] = None THEN 0 ELSE 1)
          /\ Len(output_format) =
                2 * Cardinality({k \in 1..6 : last.args[k] # None})

\* set_output_format has been called after two convert calls that followed a
\* set_output_format call, and has left its own pairs only.
C29_Witness ==
    /\ last.op = "set_output_format" /\ last.raised = "none"
    /\ last.pre.output_format = <<"-b", "8", "--comment", "note", "-b", "16", "-c", "2", "-b", "16", "-c", "2">>
    /\ output_format = <<"-b", "8", "--comment", "note">>

\* The parts of the object a builder method may change.
MayChange(op) ==
    CASE op = "set_globals" -> {"globals"}
      [] op = "set_input_format" -> {"input_format"}
      [] op = "set_output_format" -> {"output_format"}
      [] op = "convert" -> {"output_format", "effects", "effects_log"}
      [] OTHER -> {"effects", "effects_log"}

\* C30: a builder call, whether it returns or raises, leaves every part of the
\* object that is not its own as it was: set_globals may change globals only,
\* set_input_format input_format only, set_output_format output_format only,
\* an effect method effects and effects_log only, and convert output_format,
\* effects and effects_log only.
C30_OwnPartOnly ==
    last.op \in BuilderMethods =>
        \A part \in {"globals", "input_format", "output_format", "effects", "effects_log"}
                    \ MayChange(last.op) :
            Self[part] = last.pre[part]

\* set_input_format has written a new input format on a Transformer that has
\* globals, an output format, effects and a log.
C30_Witness ==
    /\ last.op = "set_input_format" /\ last.raised = "none"
    /\ input_format # last.pre.input_format
    /\ output_format # <<>> /\ effects # <<>> /\ effects_log # <<>>

\* C21: compand leaves the lists it is given as they were. After any calls of
\* compand, on one Transformer or on several, the default list of tf_points
\* holds what it held at first, so a call with default arguments appends the
\* token group the first such call appended, and the caller's list holds its
\* points in the order the caller gave them.
C21_ListsUntouched ==
    /\ tf_default = compand_tf_points
    /\ tf_caller.l = <<T(<<I(-20), I(-20)>>), T(<<I(-70), I(-70)>>), T(<<I(0), I(-5)>>)>>
    /\ (/\ last.op = "compand" /\ last.raised = "none"
        /\ last.args = <<F(300), F(800), F(6000), tf_default>>)
       => Appended = <<"compand", "0.3,0.8", "6.0:-70,-70,-60,-20,0,0">>

\* A third or later call is a compand with default arguments, on a Transformer
\* that already holds the group of a compand given the caller's unsorted list.
C21_Witness ==
    /\ ncalls >= 3
    /\ last.op = "compand" /\ last.raised = "none"
    /\ last.args = <<F(300), F(800), F(6000), tf_default>>
    /\ Len(last.pre.effects) >= 3
    /\ last.pre.effects[Len(last.pre.effects)] = "-70,-70,-20,-20,0,-5"

\* The token group an accepted call of ThreadInputs lays down, by method name.
GroupOf(name) ==
    LET c == CHOOSE c \in ThreadInputs :
                 c[1] = name /\ Invoke(c[1], NewTransformer, c[2]).raised = "none"
    IN Invoke(c[1], NewTransformer, c[2]).self.effects

\* The token groups of the named methods, one after another.
RECURSIVE Groups(_)
Groups(names) ==
    IF Len(names) = 0 THEN <<>> ELSE GroupOf(names[1]) \o Groups(Tail(names))

\* Whether every call so far was made under the callers' lock.
Serialized == \A t \in DOMAIN threads : threads[t].locked

\* C26: when two callers run effect methods on one Transformer and every call
\* is serialized, the names in effects_log stand in the order of the token
\* groups in effects: the groups of the logged names, in log order, are the
\* front of effects (a call between its two appends has its group at the end).
C26_SerializedAgree ==
    Serialized => IsPrefix(Groups(effects_log), effects)

\* Without serialization both callers have returned and the log names vad
\* before allpass while effects holds allpass's group before vad's.
C26_Witness ==
    /\ ~Serialized
    /\ \A t \in DOMAIN threads : threads[t].pc = "idle"
    /\ effects_log = <<"vad", "allpass">>
    /\ effects = GroupOf("allpass") \o GroupOf("vad")
    /\ ~IsPrefix(Groups(effects_log), effects)

=============================================================================
